---- MODULE Spec2Model ----
(***************************************************************************)
(* A model of JSZM, a JavaScript interpreter for version 3 of the          *)
(* Z-machine.  Two revisions of the interpreter are in the repository:     *)
(* src/jszm.js (prototype based) and src/unnamed/part_000 (class based).   *)
(* The variable rev says which one runs; where the text of the two agrees  *)
(* the model has one definition, where it differs the definition branches  *)
(* on rev.                                                                 *)
(*                                                                         *)
(* Memory is a function from byte addresses to bytes.  The data stack ds   *)
(* is a sequence whose LAST element is the top (Array.push / Array.pop);   *)
(* the call stack cs is a sequence whose FIRST element is the current      *)
(* frame (Array.unshift / Array.shift).                                    *)
(***************************************************************************)
EXTENDS Integers, Sequences, FiniteSets, TLC

VARIABLES
  rev,         \* "jszm" (src/jszm.js) or "part" (src/unnamed/part_000)
  memInit,     \* this.memInit: the story file, never written
  mem,         \* this.mem: the working copy
  pc,          \* program counter of run(); -1 stands for NaN
  ds,          \* data stack of run()
  cs,          \* call stack of run(): frames [pc, ds, local, named]
  savedFlags,  \* this.savedFlags
  status,      \* position of the driver (or the phase of a codec / tree run)
  saved,       \* the blob the host keeps between save() and restore()
  shown,       \* what the host has seen: [fix, since] (see Heard)
  last,        \* the operation executed last, with what it handed on
  snap,        \* the machine state remembered for a later comparison
  seed         \* this.seed: 32 bits as <<high 16 bits, low 16 bits>>

vars == <<rev, memInit, mem, pc, ds, cs, savedFlags, status, saved, shown, last, snap, seed>>

(***************************************************************************)
(* Bounds of the model.                                                    *)
(***************************************************************************)
MaxDs == 2        \* deepest data stack drawn or built
MaxCs == 2        \* deepest call stack drawn or built
MaxFrameDs == 1   \* deepest saved data stack of a drawn frame
MaxLocals == 2    \* locals of a drawn frame, besides none and the full 15

Null == [ok |-> FALSE]

(***************************************************************************)
(* Integer widths.  TLC's % is the floor modulus, so x % 2^w is the w-bit  *)
(* two's complement pattern of x.                                          *)
(***************************************************************************)
ToUint16(x) == x % 65536
ToInt16(x) == IF x % 65536 >= 32768 THEN (x % 65536) - 65536 ELSE x % 65536

SeqsUpTo(S, n) == UNION { [1..k -> S] : k \in 0..n }

(***************************************************************************)
(* Memory accessors: DataView get/set with littleEndian = byteSwapped.     *)
(***************************************************************************)
byteSwapped == memInit[1] % 2 = 1

getu(m, x) == IF byteSwapped THEN m[x] + 256 * m[x + 1] ELSE 256 * m[x] + m[x + 1]

get(m, x) == ToInt16(getu(m, x))

putu(m, x, y) ==
  LET u == y % 65536
  IN [m EXCEPT ![x] = IF byteSwapped THEN u % 256 ELSE u \div 256,
               ![x + 1] = IF byteSwapped THEN u \div 256 ELSE u % 256]

put(m, x, y) == putu(m, x, y)

(***************************************************************************)
(* Save blobs: sequences of bytes; AB reads one with a 0-based index.      *)
(* DataView accessors of the codec take no littleEndian argument: the      *)
(* fields after the memory prefix are big-endian.                          *)
(***************************************************************************)
AB(ar, i) == ar[i + 1]

U16BE(x) == << (x \div 256) % 256, x % 256 >>

\* (TLC's integers are 32-bit signed: a PC is below 2^31 in every run.)
U32BE(x) == << (x \div 16777216) % 256, (x \div 65536) % 256, (x \div 256) % 256, x % 256 >>

RECURSIVE Int16sBE(_)
Int16sBE(s) == IF s = <<>> THEN <<>> ELSE U16BE(Head(s) % 65536) \o Int16sBE(Tail(s))

\* A frame written with its locals before its saved stack.
FrameBytes_LocalsFirst(c) ==
  << Len(c.local) % 256 >> \o Tail(U32BE(c.pc)) \o U16BE(Len(c.ds) % 65536)
    \o Int16sBE(c.local) \o Int16sBE(c.ds)

\* One frame: setUint32(e, pc), then setUint8(e, local.length) over its first
\* byte, setUint16(e+4, ds.length), the saved stack, the locals.
FrameBytes(c) ==
  << Len(c.local) % 256 >> \o Tail(U32BE(c.pc)) \o U16BE(Len(c.ds) % 65536)
    \o Int16sBE(c.ds) \o Int16sBE(c.local)

RECURSIVE FramesBytes(_)
FramesBytes(cstack) ==
  IF cstack = <<>> THEN <<>> ELSE FrameBytes(Head(cstack)) \o FramesBytes(Tail(cstack))

\* A serialize that is handed the address after the branch specifier.
serialize_PastSpecifier(m, dstack, cstack, p) ==
  LET e == getu(m, 14)
  IN [i \in 1..e |-> m[i - 1]]
       \o U32BE(p + 1) \o U16BE(Len(cstack) % 65536) \o U16BE(Len(dstack) % 65536)
       \o Int16sBE(dstack) \o FramesBytes(cstack)

serialize(m, dstack, cstack, p) ==
  LET e == getu(m, 14)
  IN [i \in 1..e |-> m[i - 1]]
       \o U32BE(p) \o U16BE(Len(cstack) % 65536) \o U16BE(Len(dstack) % 65536)
       \o Int16sBE(dstack) \o FramesBytes(cstack)

\* A DataView read of n bytes at e throws RangeError unless they are all there.
CanRead(ar, e, n) == e >= 0 /\ e + n <= Len(ar)

getUint16(ar, e) == 256 * AB(ar, e) + AB(ar, e + 1)

getInt16(ar, e) == ToInt16(getUint16(ar, e))

getUint32(ar, e) ==
  16777216 * AB(ar, e) + 65536 * AB(ar, e + 1) + 256 * AB(ar, e + 2) + AB(ar, e + 3)

getInt16s(ar, e, n) == [i \in 1..n |-> getInt16(ar, e + 2 * (i - 1))]

\* The frame loop of deserialize: getUint8 (the locals count), getUint24 (a
\* 32-bit read at the same byte, masked), getUint16 and the two arrays.
RECURSIVE getFrames(_, _, _)
getFrames(ar, e, k) ==
  IF k = 0 THEN [ok |-> TRUE, cs |-> <<>>]
  ELSE IF ~CanRead(ar, e, 6) THEN Null
  ELSE LET nloc == AB(ar, e)
           fpc == 65536 * AB(ar, e + 1) + 256 * AB(ar, e + 2) + AB(ar, e + 3)
           nds == getUint16(ar, e + 4)
       IN IF ~CanRead(ar, e + 6, 2 * (nds + nloc)) THEN Null
          ELSE LET rest == getFrames(ar, e + 6 + 2 * (nds + nloc), k - 1)
               IN IF ~rest.ok THEN Null
                  ELSE [ok |-> TRUE,
                        cs |-> << [pc |-> fpc,
                                   ds |-> getInt16s(ar, e + 6, nds),
                                   local |-> getInt16s(ar, e + 6 + 2 * nds, nloc),
                                   named |-> TRUE] >> \o rest.cs]

\* The continuation deserialize(ar) reads on working memory m, before it
\* touches the memory: Null (ZORKID mismatch, or a read past the end of ar
\* that the try block catches), or the stacks and the PC.
Continuation(m, ar) ==
  LET purbot == getu(m, 14)
  IN IF ~(Len(ar) >= 4 /\ AB(ar, 2) = m[2] /\ AB(ar, 3) = m[3]) THEN Null
     ELSE IF ~CanRead(ar, purbot, 8) THEN Null
     ELSE LET p == getUint32(ar, purbot)
              ncs == getUint16(ar, purbot + 4)
              nds == getUint16(ar, purbot + 6)
          IN IF ~CanRead(ar, purbot + 8, 2 * nds) THEN Null
             ELSE LET fr == getFrames(ar, purbot + 8 + 2 * nds, ncs)
                  IN IF ~fr.ok \/ purbot > Cardinality(DOMAIN m) THEN Null
                     ELSE [ok |-> TRUE,
                           ds |-> getInt16s(ar, purbot + 8, nds),
                           cs |-> fr.cs,
                           pc |-> p]

\* m with its first PURBOT bytes taken from ar (as far as ar has them).
MemSet(m, ar) ==
  [i \in DOMAIN m |-> IF i < getu(m, 14) /\ i < Len(ar) THEN AB(ar, i) ELSE m[i]]

\* A deserialize that copies the memory prefix before it parses.
deserialize_CopyFirst(m, ar) ==
  LET z == Continuation(m, ar)
      copied == IF Len(ar) >= 4 /\ AB(ar, 2) = m[2] /\ AB(ar, 3) = m[3]
                THEN MemSet(m, ar) ELSE m
  IN IF z.ok THEN [ok |-> TRUE, ds |-> z.ds, cs |-> z.cs, pc |-> z.pc, mem |-> copied]
     ELSE [ok |-> FALSE, mem |-> copied]

\* deserialize(ar) on working memory m: ok tells whether a continuation came
\* back (ds, cs, pc), and mem is the working memory it leaves: the blob's
\* first PURBOT bytes are copied only once everything has parsed.
deserialize(m, ar) ==
  LET z == Continuation(m, ar)
  IN IF z.ok THEN [ok |-> TRUE, ds |-> z.ds, cs |-> z.cs, pc |-> z.pc, mem |-> MemSet(m, ar)]
     ELSE [ok |-> FALSE, mem |-> m]

(***************************************************************************)
(* Story files.  Story(f1) is a version-3 image of 42 bytes whose flags    *)
(* byte is f1: ZORKID 88 at 2..3, initial PC word at 6, no dictionary,     *)
(* globals base such that variable 16 lives at 18..19, PURBOT = 20 (the    *)
(* header up to the flags word and one global are dynamic), and one        *)
(* routine at byte 32 (packed address 16) with one local whose default is  *)
(* 0; its body starts at 35, which is also the initial PC.  Words are      *)
(* laid down in the byte order the flags byte announces.                   *)
(***************************************************************************)
StoryWord(m, a, w, f1) ==
  [m EXCEPT ![a] = IF f1 % 2 = 1 THEN w % 256 ELSE w \div 256,
            ![a + 1] = IF f1 % 2 = 1 THEN w \div 256 ELSE w % 256]

Story(f1) ==
  LET m0 == [i \in 0..41 |-> 0]
      m1 == [m0 EXCEPT ![0] = 3, ![1] = f1, ![2] = 0, ![3] = 88, ![32] = 1]
      m2 == StoryWord(m1, 6, 35, f1)
      m3 == StoryWord(m2, 12, 18, f1)
      m4 == StoryWord(m3, 14, 20, f1)
      m5 == StoryWord(m4, 16, 1, f1)
      m6 == StoryWord(m5, 18, 7, f1)
  IN StoryWord(m6, 24, 30, f1)

PURBOT == getu(mem, 14)

(***************************************************************************)
(* The host: what the embedding program has installed before run().        *)
(***************************************************************************)
isTandy == FALSE
hasUpdateStatusLine == FALSE
hasScreenAndSplit == FALSE

(***************************************************************************)
(* The closures of run().  A machine value M is the record                 *)
(* [mem, pc, ds, cs, thrown]: thrown says that an exception other than the *)
(* QUIT sentinel left the handler.                                         *)
(***************************************************************************)
globals == getu(memInit, 12) - 32

\* initRng(): (Math.random() * 0xFFFFFFFF) >>> 0 is any of 0 .. 2^32 - 2; the
\* model draws 0 or the state two steps before the generator state 2^32 - 1.
SeedDraws == { <<0, 0>>, <<37854, 64389>> }

\* this.seed before the first init().
NoSeed == <<0, 0>>

Bit(x, n) == (x \div (2 ^ n)) % 2 = 1

Throw(M) == [M EXCEPT !.thrown = TRUE]

\* store(y): the store byte x is the code byte at pc.
store(M, y, x) ==
  LET M1 == [M EXCEPT !.pc = @ + 1]
  IN IF x = 0 THEN [M1 EXCEPT !.ds = Append(@, y)]
     ELSE IF x < 16
       THEN IF M1.cs = <<>> THEN Throw(M1)
            ELSE IF x > Len(M1.cs[1].local) THEN M1
            ELSE [M1 EXCEPT !.cs[1].local[x] = ToInt16(y)]
     ELSE IF globals + 2 * x < 0 \/ globals + 2 * x + 2 > Cardinality(DOMAIN M1.mem)
       THEN Throw(M1)
       ELSE [M1 EXCEPT !.mem = put(@, globals + 2 * x, y)]

\* No value: undefined, as an array read past its end gives it.
Undefined == [def |-> FALSE, v |-> 0]
Value(y) == [def |-> TRUE, v |-> y]

\* Does the variable x exist on machine M: an element on the data stack, a
\* local the current frame has, a global inside the memory.
Named(M, x) ==
  IF x = 0 THEN M.ds # <<>>
  ELSE IF x < 16 THEN M.cs # <<>> /\ x <= Len(M.cs[1].local)
  ELSE globals + 2 * x >= 0 /\ globals + 2 * x + 2 <= Cardinality(DOMAIN M.mem)

\* fetch(x): [r, M], the value read and the machine left.  A local of no
\* frame is a TypeError, a global outside the memory a RangeError.
fetch(M, x) ==
  IF x = 0
  THEN IF M.ds = <<>> THEN [r |-> Undefined, M |-> M]
       ELSE [r |-> Value(M.ds[Len(M.ds)]), M |-> [M EXCEPT !.ds = SubSeq(@, 1, Len(@) - 1)]]
  ELSE IF x < 16
    THEN IF M.cs = <<>> THEN [r |-> Undefined, M |-> Throw(M)]
         ELSE IF x > Len(M.cs[1].local) THEN [r |-> Undefined, M |-> M]
         ELSE [r |-> Value(M.cs[1].local[x]), M |-> M]
  ELSE IF ~Named(M, x) THEN [r |-> Undefined, M |-> Throw(M)]
       ELSE [r |-> Value(get(M.mem, globals + 2 * x)), M |-> M]

\* An xfetch that reads globals unsigned.
xfetch_Unsigned(M, x) ==
  IF x = 0
  THEN [r |-> IF M.ds = <<>> THEN Undefined ELSE Value(M.ds[Len(M.ds)]), M |-> M]
  ELSE IF x < 16
    THEN IF M.cs = <<>> THEN [r |-> Undefined, M |-> Throw(M)]
         ELSE IF x > Len(M.cs[1].local) THEN [r |-> Undefined, M |-> M]
         ELSE [r |-> Value(M.cs[1].local[x]), M |-> M]
  ELSE IF ~Named(M, x) THEN [r |-> Undefined, M |-> Throw(M)]
       ELSE [r |-> Value(getu(M.mem, globals + 2 * x)), M |-> M]

\* xfetch(x): as fetch, but variable 0 is read where it lies.
xfetch(M, x) ==
  IF x = 0
  THEN [r |-> IF M.ds = <<>> THEN Undefined ELSE Value(M.ds[Len(M.ds)]), M |-> M]
  ELSE IF x < 16
    THEN IF M.cs = <<>> THEN [r |-> Undefined, M |-> Throw(M)]
         ELSE IF x > Len(M.cs[1].local) THEN [r |-> Undefined, M |-> M]
         ELSE [r |-> Value(M.cs[1].local[x]), M |-> M]
  ELSE IF ~Named(M, x) THEN [r |-> Undefined, M |-> Throw(M)]
       ELSE [r |-> Value(get(M.mem, globals + 2 * x)), M |-> M]

\* An xstore that pushes on variable 0.
xstore_Pushes(M, x, y) ==
  IF x = 0 THEN [M EXCEPT !.ds = Append(@, y)]
  ELSE IF x < 16
    THEN IF M.cs = <<>> THEN Throw(M)
         ELSE IF x > Len(M.cs[1].local) THEN M
         ELSE [M EXCEPT !.cs[1].local[x] = ToInt16(y)]
  ELSE IF ~Named(M, x) THEN Throw(M)
       ELSE [M EXCEPT !.mem = put(@, globals + 2 * x, y)]

\* xstore(x, y): ds[ds.length - 1] = y on an empty stack sets the property
\* "-1" of the array and no element; a local is an element of an Int16Array.
xstore(M, x, y) ==
  IF x = 0 THEN IF M.ds = <<>> THEN M ELSE [M EXCEPT !.ds[Len(M.ds)] = y]
  ELSE IF x < 16
    THEN IF M.cs = <<>> THEN Throw(M)
         ELSE IF x > Len(M.cs[1].local) THEN M
         ELSE [M EXCEPT !.cs[1].local[x] = ToInt16(y)]
  ELSE IF ~Named(M, x) THEN Throw(M)
       ELSE [M EXCEPT !.mem = put(@, globals + 2 * x, y)]

\* getParameterByType(type) for the operand o = [type, raw]: raw is the word
\* (type 0) or the byte (types 1 and 2) the code has at pc; type 2 is
\* pcfetch, type 3 reads nothing.
getParameterByType(M, o) ==
  IF o.type = 0 THEN [r |-> Value(ToInt16(o.raw)), M |-> [M EXCEPT !.pc = @ + 2]]
  ELSE IF o.type = 1 THEN [r |-> Value(o.raw % 256), M |-> [M EXCEPT !.pc = @ + 1]]
  ELSE IF o.type = 2 THEN fetch([M EXCEPT !.pc = @ + 1], o.raw % 256)
  ELSE [r |-> Undefined, M |-> M]

\* The operands os read in order: [rs, M].
RECURSIVE getParameters(_, _)
getParameters(M, os) ==
  IF os = <<>> THEN [rs |-> <<>>, M |-> M]
  ELSE LET h == getParameterByType(M, Head(os))
           t == getParameters(h.M, Tail(os))
       IN [rs |-> <<h.r>> \o t.rs, M |-> t.M]

\* ret(x).  A frame pushed by CALL of part_000 has the fields dataStack and
\* programCounter, which ret does not read: ds and pc become undefined, the
\* store byte is mem[undefined], and store falls to put(NaN, y), a write of y
\* at address 0; pc is NaN (-1) from then on.
ret(M, x, sb) ==
  IF M.cs = <<>> THEN Throw(M)
  ELSE LET f == Head(M.cs)
       IN IF f.named
          THEN store([M EXCEPT !.ds = f.ds, !.pc = f.pc, !.cs = Tail(@)], x, sb)
          ELSE [M EXCEPT !.ds = <<>>, !.pc = -1, !.cs = Tail(@), !.mem = put(@, 0, x)]

\* A predicate that branches on true when bit 7 is clear.
predicate_OnTrueWhenClear(M, p, b1, b2, sb) ==
  LET long == ~Bit(b1, 6)
      q == IF Bit(b1, 7) THEN p ELSE ~p
      x == IF long THEN (b1 % 64) * 256 + b2 ELSE b1 % 64
      M1 == [M EXCEPT !.pc = @ + (IF long THEN 2 ELSE 1)]
  IN IF q THEN M1
     ELSE IF x = 0 \/ x = 1 THEN ret(M1, x, sb)
     ELSE [M1 EXCEPT !.pc = @ + (IF Bit(x, 13) THEN x - 16384 ELSE x) - 2]

\* A predicate that takes the 14-bit offset as unsigned.
predicate_Unsigned(M, p, b1, b2, sb) ==
  LET long == ~Bit(b1, 6)
      q == IF Bit(b1, 7) THEN ~p ELSE p
      x == IF long THEN (b1 % 64) * 256 + b2 ELSE b1 % 64
      M1 == [M EXCEPT !.pc = @ + (IF long THEN 2 ELSE 1)]
  IN IF q THEN M1
     ELSE IF x = 0 \/ x = 1 THEN ret(M1, x, sb)
     ELSE [M1 EXCEPT !.pc = @ + x - 2]

\* predicate(p): b1 is the code byte at pc, b2 the one after it (read in the
\* long form only), sb the store byte of the call site if the branch returns.
predicate(M, p, b1, b2, sb) ==
  LET long == ~Bit(b1, 6)
      q == IF Bit(b1, 7) THEN ~p ELSE p
      x == IF long THEN (b1 % 64) * 256 + b2 ELSE b1 % 64
      M1 == [M EXCEPT !.pc = @ + (IF long THEN 2 ELSE 1)]
  IN IF q THEN M1
     ELSE IF x = 0 \/ x = 1 THEN ret(M1, x, sb)
     ELSE [M1 EXCEPT !.pc = @ + (IF Bit(x, 13) THEN x - 16384 ELSE x) - 2]

\* An init() that sets up the working memory it finds, once there is one.
init_OfWorkingMemory(sf) ==
  LET m0 == IF mem = <<>> THEN memInit ELSE mem
      b1 == (m0[1] % 4) + (IF isTandy THEN 8 ELSE 0)
              + (IF hasUpdateStatusLine THEN 0 ELSE 16)
              + (IF hasScreenAndSplit THEN 32 ELSE 0)
  IN put([m0 EXCEPT ![1] = b1], 16, sf)

\* init(): the memory of a fresh run (the flags byte rewritten, the flags word
\* taken from savedFlags).
init(sf) ==
  LET m0 == memInit
      b1 == (m0[1] % 4) + (IF isTandy THEN 8 ELSE 0)
              + (IF hasUpdateStatusLine THEN 0 ELSE 16)
              + (IF hasScreenAndSplit THEN 32 ELSE 0)
  IN put([m0 EXCEPT ![1] = b1], 16, sf)

\* A mode byte that keeps the story's upper bits.
modeByte_KeepsUpper(b, h) ==
  (b % 4) + ((b \div 64) * 64)
    + (IF h.isTandy THEN 8 ELSE 0)
    + (IF h.updateStatusLine THEN 0 ELSE 16)
    + (IF h.screen /\ h.split THEN 32 ELSE 0)

\* mem[1] as init() leaves it for the story's byte b and the host h, which
\* says what the embedding program has set: mem[1] &= 3, then |= 8, 16, 32.
modeByte(b, h) ==
  (b % 4)
    + (IF h.isTandy THEN 8 ELSE 0)
    + (IF h.updateStatusLine THEN 0 ELSE 16)
    + (IF h.screen /\ h.split THEN 32 ELSE 0)

\* init() under the host h.
initHost(h, sf) == put([memInit EXCEPT ![1] = modeByte(memInit[1], h)], 16, sf)

\* genPrint(text): the callouts it makes and the savedFlags it leaves.
genPrint(m, sf) ==
  LET x == get(m, 16)
      pr == << [k |-> "print", fix |-> Bit(x, 1), scripting |-> Bit(x, 0)] >>
  IN IF x # sf
     THEN [savedFlags |-> x, calls |-> << [k |-> "highlight", fix |-> Bit(x, 1)] >> \o pr]
     ELSE [savedFlags |-> sf, calls |-> pr]

Truth(p) == IF p THEN "true" ELSE "false"

\* What the host has seen after the callouts c: fix is the fixed-pitch bit at
\* the latest print, since the highlight arguments received after it.
RECURSIVE Heard(_, _)
Heard(sh, c) ==
  IF c = <<>> THEN sh
  ELSE Heard(IF Head(c).k = "print" THEN [sh EXCEPT !.fix = Truth(Head(c).fix), !.since = {}]
             ELSE IF Head(c).k = "highlight" THEN [sh EXCEPT !.since = @ \cup {Head(c).fix}]
             ELSE sh,
             Tail(c))

(***************************************************************************)
(* Spec: the driver run(), one action per instruction.  The story's code   *)
(* is an input: each action draws the bytes of its instruction (operands,  *)
(* store byte, branch specifier) from small sets, and pc advances by the   *)
(* bytes read.  Instructions lie in the CodeLen bytes from the initial PC; *)
(* the story's SAVE, CALL and QUIT instructions and its empty-slot opcode  *)
(* lie at the first Sites addresses of them.                               *)
(***************************************************************************)
CodeLen == 10
Sites == 1
RunDs == 1        \* deepest data stack PUSH builds
RunCs == 1        \* deepest call stack CALL builds

CodeLo == getu(memInit, 6)
Fits(n) == status = "running" /\ pc >= CodeLo /\ pc + n <= CodeLo + CodeLen

\* The operands of the story's PUT instructions: the word at 17, which is
\* the low byte of the flags word (fixed-pitch bit off, on) and the first
\* byte of global variable 16.
PutOperands == {<<1, 8, 0>>, <<1, 8, 513>>}

\* Branch specifiers.  C2: on true, offset 2 (the next instruction either
\* way); 41: on false, return 1; C1: on true, return 1; 00: on false, long
\* form (offset 2 with the byte after it).
BranchBytes == {194, 65, 193, 0}
StoreBytes == {0}

Cur == [mem |-> mem, pc |-> pc, ds |-> ds, cs |-> cs, thrown |-> FALSE]

\* The machine after one opcode byte (and n more operand bytes).
After(n) == [Cur EXCEPT !.pc = @ + n]

\* A catch that returns on any exception.
Caught_AnyThrowReturns(M) == IF M.thrown THEN "finished" ELSE "running"

\* The catch of the main loop: only the QUIT sentinel ends run() by return;
\* any other exception is thrown on.
Caught(M) == IF M.thrown THEN "error" ELSE "running"

Install(M) ==
  /\ Len(M.ds) <= RunDs
  /\ mem' = M.mem
  /\ pc' = M.pc
  /\ ds' = M.ds
  /\ cs' = M.cs
  /\ status' = Caught(M)

Did(op, p, why, calls) ==
  /\ last' = [op |-> op, pred |-> p, why |-> why, calls |-> calls]
  /\ shown' = Heard(shown, calls)

Constructed ==
  /\ rev \in {"jszm", "part"}
  /\ memInit = Story(0)
  /\ mem = <<>>
  /\ pc = 0
  /\ ds = <<>>
  /\ cs = <<>>
  /\ savedFlags = 0
  /\ status = "constructed"
  /\ saved = <<>>
  /\ last = [op |-> "none", pred |-> "none", why |-> "none", calls |-> <<>>]
  /\ snap = [op |-> "none"]
  /\ seed = NoSeed

Init ==
  /\ Constructed
  /\ shown = [fix |-> "none", since |-> {}]

Boot ==
  /\ status = "constructed"
  /\ mem' = init(savedFlags)
  /\ pc' = getu(init(savedFlags), 6)
  /\ ds' = <<>>
  /\ cs' = <<>>
  /\ status' = "running"
  /\ Did("boot", "none", "none",
         << [k |-> "restarted"], [k |-> "highlight", fix |-> Bit(savedFlags, 1)] >>)
  /\ seed' \in SeedDraws
  /\ UNCHANGED <<rev, memInit, savedFlags, saved, snap>>

\* PUSH with one small constant: E8 7F a.
PUSH ==
  /\ Fits(3)
  /\ Len(ds) < RunDs
  /\ Install([After(3) EXCEPT !.ds = Append(@, 1)])
  /\ Did("PUSH", "none", "none", <<>>)
  /\ UNCHANGED <<seed, rev, memInit, savedFlags, saved, snap>>

FSTACK ==
  /\ Fits(1)
  /\ Install([After(1) EXCEPT !.ds = IF @ = <<>> THEN @ ELSE SubSeq(@, 1, Len(@) - 1)])
  /\ Did("FSTACK", "none", "none", <<>>)
  /\ UNCHANGED <<seed, rev, memInit, savedFlags, saved, snap>>

\* PUT op0 op1 op2 with two small constants and a large one (E1 53 op0 op1
\* hi lo): the word at (op0 + op1 * 2) & 65535.
PUT ==
  /\ Fits(6)
  /\ \E o \in PutOperands :
       Install([After(6) EXCEPT !.mem = put(@, (o[1] + o[2] * 2) % 65536, o[3])])
  /\ Did("PUT", "none", "none", <<>>)
  /\ UNCHANGED <<seed, rev, memInit, savedFlags, saved, snap>>

CRLF ==
  /\ Fits(1)
  /\ LET g == genPrint(mem, savedFlags)
     IN /\ savedFlags' = g.savedFlags
        /\ Did("CRLF", "none", "none", g.calls)
  /\ Install(After(1))
  /\ UNCHANGED <<seed, rev, memInit, saved, snap>>

\* serialize reads c.ds and c.pc of every frame: TypeError on a frame that
\* has neither (see ret).
SAVE ==
  /\ Fits(2)
  /\ pc < CodeLo + Sites
  /\ savedFlags' = get(mem, 16)
  /\ IF \E i \in 1..Len(cs) : ~cs[i].named
     THEN /\ Install(Throw(After(1)))
          /\ Did("SAVE", "none", "none", <<>>)
          /\ UNCHANGED saved
     ELSE \E r \in BOOLEAN, b1 \in BranchBytes, sb \in StoreBytes :
            LET blob == serialize(mem, ds, cs, pc + 1)
            IN /\ saved' = IF r THEN blob ELSE saved
               /\ Install(predicate(After(1), r, b1, 2, sb))
               /\ Did("SAVE", Truth(r), "none", << [k |-> "save"] >>)
  /\ UNCHANGED <<seed, rev, memInit, snap>>

\* What restore() may answer: nothing, the blob kept, a blob of another
\* release, or the blob kept cut short: by 1..MaxCut bytes, inside its
\* header, inside the memory prefix, or before the ZORKID.
MaxCut == 1

Cuts(ar) ==
  { n \in 1..(Len(ar) - 1) :
      n >= Len(ar) - MaxCut \/ n \in {3, getu(mem, 14) - 1, getu(mem, 14) + 5} }

RestoreAnswers ==
  { [why |-> "none", ar |-> <<>>] }
    \cup (IF saved = <<>> THEN {}
          ELSE { [why |-> "whole", ar |-> saved],
                 [why |-> "zorkid", ar |-> [saved EXCEPT ![4] = (@ + 1) % 256]] }
               \cup { [why |-> "truncated", ar |-> SubSeq(saved, 1, n)] : n \in Cuts(saved) })

RestoreInstall_jszm(M, z) == [M EXCEPT !.ds = z.ds, !.cs = z.cs, !.pc = z.pc]

\* part_000 reads z[0], and no z is in scope: ReferenceError.
RestoreInstall_part(M, z) == Throw(M)

RestoreInstall(M, z) ==
  IF rev = "jszm" THEN RestoreInstall_jszm(M, z) ELSE RestoreInstall_part(M, z)

\* A RESTORE that does not write the flags word back.
RestoreMem_NoPut(z, sf) == z.mem

\* The memory RESTORE leaves: the blob's prefix if it parsed, and over it the
\* flags word read before the callout.
RestoreMem(z, sf) == put(z.mem, 16, sf)

RESTORE ==
  /\ Fits(2)
  /\ \E h \in RestoreAnswers, b1 \in BranchBytes, sb \in StoreBytes :
       LET sf == get(mem, 16)
           z == IF h.why = "none" THEN [ok |-> FALSE, mem |-> mem] ELSE deserialize(mem, h.ar)
           M0 == [After(1) EXCEPT !.mem = RestoreMem(z, sf)]
           M1 == IF z.ok THEN RestoreInstall(M0, z) ELSE M0
       IN /\ savedFlags' = sf
          /\ IF M1.thrown
             THEN /\ Install(M1)
                  /\ Did("RESTORE", "none", h.why, << [k |-> "restore"] >>)
             ELSE /\ Install(predicate(M1, z.ok, b1, 2, sb))
                  /\ Did("RESTORE", Truth(z.ok), h.why, << [k |-> "restore"] >>)
  /\ UNCHANGED <<seed, rev, memInit, saved, snap>>

RESTART ==
  /\ Fits(1)
  /\ mem' = init(savedFlags)
  /\ pc' = getu(init(savedFlags), 6)
  /\ ds' = <<>>
  /\ cs' = <<>>
  /\ status' = "running"
  /\ Did("RESTART", "none", "none", << [k |-> "restarted"] >>)
  /\ seed' \in SeedDraws
  /\ UNCHANGED <<rev, memInit, savedFlags, saved, snap>>

QUIT ==
  /\ Fits(1)
  /\ pc < CodeLo + Sites
  /\ pc' = pc + 1
  /\ status' = "finished"
  /\ Did("QUIT", "none", "none", <<>>)
  /\ UNCHANGED <<seed, rev, memInit, mem, ds, cs, savedFlags, saved, snap>>

\* A CALL that enters the routine at packed address 0 like any other.
call_ZeroIsARoutine(M, method, rs, sb) ==
  LET a == (method % 65536) * 2
      n == M.mem[a]
      fr == [pc |-> M.pc, ds |-> M.ds,
             local |-> [i \in 1..n |->
                          IF i <= 3 /\ i <= Len(rs) /\ rs[i].def THEN ToInt16(rs[i].v)
                          ELSE get(M.mem, a + 1 + 2 * (i - 1))],
             named |-> rev = "jszm"]
  IN [M EXCEPT !.cs = <<fr>> \o @, !.ds = <<>>, !.pc = a + 1 + 2 * n]

\* A CALL that leaves the locals without an argument at 0.
call_NoDefaults(M, method, rs, sb) ==
  IF method # 0
  THEN LET a == (method % 65536) * 2
           n == M.mem[a]
           fr == [pc |-> M.pc, ds |-> M.ds,
                  local |-> [i \in 1..n |->
                               IF i <= 3 /\ i <= Len(rs) /\ rs[i].def THEN ToInt16(rs[i].v)
                               ELSE 0],
                  named |-> rev = "jszm"]
       IN [M EXCEPT !.cs = <<fr>> \o @, !.ds = <<>>, !.pc = a + 1 + 2 * n]
  ELSE store(M, 0, sb)

\* The CALL handler on machine M (pc behind the operands): method is the
\* first parameter, rs the parameters after it (Undefined where omitted), sb
\* the store byte read if the routine is 0.  The new frame keeps ds and pc
\* under the names ds/pc in jszm.js, dataStack/programCounter in part_000.
call(M, method, rs, sb) ==
  IF method # 0
  THEN LET a == (method % 65536) * 2
           n == M.mem[a]
           fr == [pc |-> M.pc, ds |-> M.ds,
                  local |-> [i \in 1..n |->
                               IF i <= 3 /\ i <= Len(rs) /\ rs[i].def THEN ToInt16(rs[i].v)
                               ELSE get(M.mem, a + 1 + 2 * (i - 1))],
                  named |-> rev = "jszm"]
       IN [M EXCEPT !.cs = <<fr>> \o @, !.ds = <<>>, !.pc = a + 1 + 2 * n]
  ELSE store(M, 0, sb)

\* CALL with the routine alone (E0 3F hi lo).
CALL ==
  /\ Fits(4)
  /\ pc < CodeLo + Sites
  /\ Len(cs) < RunCs
  /\ \E method \in {0, 16}, sb \in StoreBytes : Install(call(After(4), method, <<>>, sb))
  /\ Did("CALL", "none", "none", <<>>)
  /\ UNCHANGED <<seed, rev, memInit, savedFlags, saved, snap>>

RTRUE ==
  /\ Fits(1)
  /\ \E sb \in StoreBytes : Install(ret(After(1), 1, sb))
  /\ Did("RTRUE", "none", "none", <<>>)
  /\ UNCHANGED <<seed, rev, memInit, savedFlags, saved, snap>>

\* An empty slot of the opcode tables (BE: 0OP 14), or the decoding of
\* mem[NaN] = undefined (2OP 0): "JSZM: Invalid Z-machine opcode".
Invalid ==
  /\ status = "running"
  /\ \/ pc = -1 /\ pc' = pc
     \/ Fits(1) /\ pc < CodeLo + Sites /\ pc' = pc + 1
  /\ status' = "error"
  /\ Did("invalid", "none", "none", <<>>)
  /\ UNCHANGED <<seed, rev, memInit, mem, ds, cs, savedFlags, saved, snap>>

Next ==
  \/ Boot \/ PUSH \/ FSTACK \/ PUT \/ CRLF \/ SAVE \/ RESTORE
  \/ RESTART \/ QUIT \/ CALL \/ RTRUE \/ Invalid

Spec == Init /\ [][Next]_vars

(***************************************************************************)
(* Claims about the driver.                                                *)
(***************************************************************************)

\* C2: RESTORE hands a true predicate to the branch decoder if and only if the
\* host returned a blob of this release that parsed whole; a host answer of
\* false/null, a ZORKID mismatch or a truncated blob hand it a false one and
\* do not finish the driver.
C2_RestoreSucceedsIff ==
  last.op = "RESTORE" =>
    /\ (last.pred = "true") <=> (last.why = "whole")
    /\ last.why # "whole" => (last.pred = "false" /\ status # "finished")

\* C3 as claimed: after a failed RESTORE the working memory, the data stack
\* and the call stack are what they were before the opcode.
C3_FailedRestoreChangesNothing ==
  [][(last'.op = "RESTORE" /\ last'.why # "whole")
       => (mem' = mem /\ ds' = ds /\ cs' = cs)]_vars

\* C3 amended: after a failed RESTORE the machine is what a false predicate
\* alone leaves of the machine before the opcode (its branch specifier may
\* return from the current routine); nothing is taken from the blob.
C3_FailedRestoreIsAFalsePredicate ==
  [][(last'.op = "RESTORE" /\ last'.why # "whole")
       => \E b1 \in BranchBytes, sb \in StoreBytes :
            LET M == predicate(After(1), FALSE, b1, 2, sb)
            IN /\ mem' = M.mem
               /\ ds' = M.ds
               /\ cs' = M.cs
               /\ pc' = M.pc
               /\ status' = Caught(M)]_vars

\* A truncated blob, saved with other stacks and another flags word than the
\* current ones, was refused inside a routine.
C3_Witness ==
  /\ last.op = "RESTORE"
  /\ last.why = "truncated"
  /\ status = "running"
  /\ Len(cs) = 1
  /\ ds = <<1>>
  /\ AB(saved, 17) # mem[17]
  /\ AB(saved, PURBOT + 5) = 0

\* C4: after every RESTORE, successful or failed, the word at offset 16 is
\* what it was immediately before the RESTORE.
C4_RestoreKeepsFlagsWord ==
  [][last'.op = "RESTORE" => get(mem', 16) = get(mem, 16)]_vars

\* A blob carrying another flags word was restored whole.
C4_Witness ==
  /\ last.op = "RESTORE"
  /\ last.why = "whole"
  /\ last.pred = "true"
  /\ getu(mem, 16) # 256 * AB(saved, 16) + AB(saved, 17)
  /\ \A i \in 18..(PURBOT - 1) : mem[i] = AB(saved, i)

\* C5: after every RESTART the word at offset 16 is what it was immediately
\* before the RESTART.
C5_RestartKeepsFlagsWord ==
  [][last'.op = "RESTART" => get(mem', 16) = get(mem, 16)]_vars

\* C33: after every RESTART both stacks are empty, pc is the word at 6 of
\* the header, and the working memory is the initial image at every byte
\* other than byte 1 and bytes 16 and 17; no step changes the initial image.
C33_RestartResets ==
  /\ [](last.op = "RESTART" =>
          /\ ds = <<>> /\ cs = <<>>
          /\ pc = getu(memInit, 6)
          /\ DOMAIN mem = DOMAIN memInit
          /\ \A i \in DOMAIN mem \ {1, 16, 17} : mem[i] = memInit[i])
  /\ [][memInit' = memInit]_vars

\* C33: a RESTART after the story wrote bytes 17 and 18 and printed, and
\* after a SAVE: the flags word is the one printed with, byte 18 is the
\* initial image's again.
C33_Witness ==
  /\ last.op = "RESTART"
  /\ savedFlags = 2
  /\ get(mem, 16) = 2
  /\ mem[18] = memInit[18]
  /\ saved # <<>>

\* The program counter kept in the blob ar.
BlobPc(ar) == getUint32(ar, PURBOT)

\* C38: the pc SAVE serializes is the address of its own branch specifier
\* (the byte after its opcode); a RESTORE that succeeds with that blob then
\* evaluates the specifier at that address with a true predicate, on the
\* stacks of the blob.
C38_RestoreResumesAtSave ==
  /\ [][(last'.op = "SAVE" /\ last'.pred = "true") => BlobPc(saved') = pc + 1]_vars
  /\ [][(last'.op = "RESTORE" /\ last'.pred = "true") =>
          \E b1 \in BranchBytes, sb \in StoreBytes :
            \E M \in {predicate([mem |-> mem', pc |-> BlobPc(saved),
                                 ds |-> deserialize(mem, saved).ds,
                                 cs |-> deserialize(mem, saved).cs,
                                 thrown |-> FALSE], TRUE, b1, 2, sb)} :
              pc' = M.pc /\ ds' = M.ds /\ cs' = M.cs]_vars

\* C38: a RESTORE of src/jszm.js, at an instruction after the SAVE, went
\* back to the specifier of the SAVE at the first instruction and past its
\* one byte, with the empty stack of the blob.
C38_Witness ==
  /\ rev = "jszm"
  /\ last.op = "RESTORE"
  /\ last.pred = "true"
  /\ BlobPc(saved) = CodeLo + 1
  /\ pc = CodeLo + 2
  /\ ds = <<>>
  /\ status = "running"

\* C6: whenever the fixed-pitch bit at a print callout differs from its value
\* at the previous print callout, a highlight callout carrying the new value
\* lies between the two.
C6_HighlightBeforePrint ==
  [][\A i \in 1..Len(last'.calls) :
       last'.calls[i].k = "print" =>
         LET before == Heard(shown, SubSeq(last'.calls, 1, i - 1))
             b == last'.calls[i].fix
         IN (before.fix # "none" /\ before.fix # Truth(b)) => b \in before.since]_vars

\* C7: the driver is finished exactly when a QUIT has executed, and nothing
\* (no opcode, no callout) happens once it has.
C7_FinishedIffQuit ==
  /\ [](status = "finished" <=> last.op = "QUIT")
  /\ [][status # "finished"]_vars

C7_Witness ==
  /\ status = "finished"
  /\ last.op = "QUIT"
  /\ Len(cs) = 1
  /\ saved # <<>>

(***************************************************************************)
(* SpecSer: the save codec as a pure function.  Init draws a machine state *)
(* (stack depths, frame shapes, a value ramp, a PC); Serialize keeps the   *)
(* blob, Scribble lets the machine run on (dynamic memory, stacks and PC   *)
(* change, the header words the codec reads do not), Deserialize installs  *)
(* what deserialize returns.                                               *)
(***************************************************************************)
Int16Bases == {-32768, -2, 255}
PcVals == {0, 66051, 16777215}
LocalCounts == {0, MaxLocals, 15}
FrameShapes == [nds : 0..MaxFrameDs, nloc : LocalCounts]

\* n consecutive signed 16-bit values starting at b (wrapping).
Ramp(b, n) == [i \in 1..n |-> ToInt16(b + i - 1)]

ShapedFrame(sh, b, p, k) ==
  [pc |-> (p + 65793 * k) % 16777216,
   ds |-> Ramp(b + 16 * k, sh.nds),
   local |-> Ramp(b + 16 * k + 8, sh.nloc),
   named |-> TRUE]

\* (The text of serialize and deserialize is the same in both revisions.)
SerInit ==
  /\ rev = "jszm"
  /\ \E f1 \in {0, 1} : /\ memInit = Story(f1)
                        /\ mem = Story(f1)
  /\ \E b \in Int16Bases, p \in PcVals, n \in 0..MaxDs, shs \in SeqsUpTo(FrameShapes, MaxCs) :
       /\ pc = p
       /\ ds = Ramp(b + 100, n)
       /\ cs = [k \in 1..Len(shs) |-> ShapedFrame(shs[k], b, p, k)]
  /\ savedFlags = 0
  /\ status = "fresh"
  /\ saved = <<>>
  /\ shown = [fix |-> "none", since |-> {}]
  /\ last = [op |-> "none"]
  /\ snap = [op |-> "none"]
  /\ seed = NoSeed

Serialize ==
  /\ status = "fresh"
  /\ saved' = serialize(mem, ds, cs, pc)
  /\ snap' = [mem |-> mem, ds |-> ds, cs |-> cs, pc |-> pc]
  /\ status' = "saved"
  /\ last' = [op |-> "serialize"]
  /\ UNCHANGED <<seed, rev, memInit, mem, pc, ds, cs, savedFlags, shown>>

Scribble ==
  /\ status = "saved"
  /\ \E v \in {2, 513} : mem' = put(put(mem, 16, v), 18, v + 1)
  /\ ds' = <<9>>
  /\ cs' = <<>>
  /\ pc' = 35
  /\ status' = "scribbled"
  /\ last' = [op |-> "scribble"]
  /\ UNCHANGED <<seed, rev, memInit, savedFlags, saved, shown, snap>>

Deserialize ==
  /\ status \in {"saved", "scribbled"}
  /\ LET z == deserialize(mem, saved)
     IN /\ last' = [op |-> "deserialize", ok |-> z.ok]
        /\ mem' = z.mem
        /\ IF z.ok
           THEN /\ ds' = z.ds
                /\ cs' = z.cs
                /\ pc' = z.pc
           ELSE UNCHANGED <<ds, cs, pc>>
  /\ status' = "restored"
  /\ UNCHANGED <<seed, rev, memInit, savedFlags, saved, shown, snap>>

SerNext == Serialize \/ Scribble \/ Deserialize

SpecSer == SerInit /\ [][SerNext]_vars

\* C1: deserialize(serialize(ds, cs, pc)) on the same image succeeds and gives
\* back the data stack, the call stack (frame by frame: saved PC, saved data
\* stack, locals, in order) and the PC, and the first PURBOT bytes of working
\* memory are again what they were when serialize ran.
C1_RoundTrip ==
  status = "restored" =>
    /\ last.ok
    /\ ds = snap.ds
    /\ cs = snap.cs
    /\ pc = snap.pc
    /\ \A i \in 0..(PURBOT - 1) : mem[i] = snap.mem[i]

\* A round trip of two frames with different shapes (one with the full 15
\* locals), negative values, and memory that changed in between.
C1_Witness ==
  /\ status = "restored"
  /\ last.ok
  /\ Len(cs) = 2
  /\ Len(cs[1].local) = 15
  /\ Len(cs[2].local) = MaxLocals
  /\ Len(cs[2].ds) = 1
  /\ Len(ds) = 2
  /\ ds[1] < 0
  /\ pc = 16777215
  /\ byteSwapped
  /\ saved # serialize(snap.mem, <<9>>, <<>>, 35)
  /\ mem[17] = snap.mem[17]

(***************************************************************************)
(* Object tables.  ObjStory(kids, tabs) is a version-3 image whose object  *)
(* table starts at 32: the 31 property defaults, then the 9-byte entries   *)
(* of objects 1..NObj, then their property tables.  kids[r] lists the      *)
(* children of object r in order (an object in no list has parent 0);      *)
(* tabs[x] is the property table of object x: the length of its short name *)
(* in words and its entries [num, len] in order.  Default p is the word    *)
(* DefaultWord(p); the byte at a property data address a is DataByte(a).   *)
(***************************************************************************)
NObj == 4

Objs == 1..NObj

defprop == getu(memInit, 10) - 2
objects == defprop + 55

loc(m, x) == m[objects + x * 9 + 4]
next(m, x) == m[objects + x * 9 + 5]
first(m, x) == m[objects + x * 9 + 6]

DefaultWord(p) == (40000 + 257 * p) % 65536
DataByte(a) == (a * 37 + 165) % 256

RECURSIVE PropBytes(_, _)
PropBytes(props, a) ==
  IF props = <<>> THEN <<0>>
  ELSE LET e == Head(props)
       IN << (e.len - 1) * 32 + e.num >>
            \o [i \in 1..e.len |-> DataByte(a + i)]
            \o PropBytes(Tail(props), a + 1 + e.len)

\* The table of one object laid down at address a.
TableBytes(t, a) ==
  << t.name >> \o [i \in 1..(2 * t.name) |-> 0] \o PropBytes(t.props, a + 1 + 2 * t.name)

\* Where the property table of object x lies.
RECURSIVE TableAt(_, _)
TableAt(tabs, x) ==
  IF x = 1 THEN 94 + 9 * NObj
  ELSE TableAt(tabs, x - 1) + Len(TableBytes(tabs[x - 1], TableAt(tabs, x - 1)))

ParentOf(kids, x) ==
  IF \E r \in Objs : \E i \in 1..Len(kids[r]) : kids[r][i] = x
  THEN CHOOSE r \in Objs : \E i \in 1..Len(kids[r]) : kids[r][i] = x
  ELSE 0

SiblingOf(kids, x) ==
  LET r == ParentOf(kids, x)
  IN IF r = 0 THEN 0
     ELSE LET i == CHOOSE j \in 1..Len(kids[r]) : kids[r][j] = x
          IN IF i < Len(kids[r]) THEN kids[r][i + 1] ELSE 0

ChildOf(kids, x) == IF kids[x] = <<>> THEN 0 ELSE Head(kids[x])

RECURSIVE ObjEntries(_, _, _)
ObjEntries(kids, tabs, x) ==
  IF x > NObj THEN <<>>
  ELSE << 0, 0, 0, 0, ParentOf(kids, x), SiblingOf(kids, x), ChildOf(kids, x) >>
         \o U16BE(TableAt(tabs, x)) \o ObjEntries(kids, tabs, x + 1)

RECURSIVE Tables(_, _)
Tables(tabs, x) ==
  IF x > NObj THEN <<>>
  ELSE TableBytes(tabs[x], TableAt(tabs, x)) \o Tables(tabs, x + 1)

RECURSIVE Defaults(_)
Defaults(p) == IF p > 31 THEN <<>> ELSE U16BE(DefaultWord(p)) \o Defaults(p + 1)

ObjStory(kids, tabs) ==
  LET body == Defaults(1) \o ObjEntries(kids, tabs, 1) \o Tables(tabs, 1)
      hdr == [i \in 1..32 |-> CASE i = 1 -> 3
                                [] i = 12 -> 32
                                [] i = 15 -> (32 + Len(body)) \div 256
                                [] i = 16 -> (32 + Len(body)) % 256
                                [] OTHER -> 0]
      bytes == hdr \o body
  IN [i \in 0..(Len(bytes) - 1) |-> bytes[i + 1]]

NoTable == [name |-> 0, props |-> <<>>]

(***************************************************************************)
(* SpecMove: the object tree under move(x, y), as the MOVE and REMOVE      *)
(* opcodes call it, from the tree A{B, C{D}} (A, B, C, D = 1, 2, 3, 4).    *)
(* last tells the latest move, if the tree before it was well-formed, and  *)
(* if it moved the object that the move before it had moved in a           *)
(* well-formed tree.  move() is the same text in both revisions.           *)
(***************************************************************************)

\* The while loop of move(): from z along next until x is met; w is the
\* object before x.  The bytes walked are object numbers of this image (0 to
\* NObj, the entry of "object 0" being zero bytes of the defaults), so a walk
\* of more than NObj + 1 steps is in a cycle without x and never ends.
\* A walk that takes the first child for the object before x.
walk_StopsAtFirst(m, z, x, w, n) == [hung |-> FALSE, w |-> z]

RECURSIVE walk(_, _, _, _, _)
walk(m, z, x, w, n) ==
  IF z = x THEN [hung |-> FALSE, w |-> w]
  ELSE IF n = 0 THEN [hung |-> TRUE, w |-> w]
  ELSE walk(m, next(m, z), x, z, n - 1)

\* A move that leaves the old chain as it is.
move_KeepsOldLink(m, x, y) ==
  LET m2 == [m EXCEPT ![objects + x * 9 + 4] = y % 256]
      m3 == IF y # 0
            THEN LET m4 == [m2 EXCEPT ![objects + x * 9 + 5] = m2[objects + y * 9 + 6]]
                 IN [m4 EXCEPT ![objects + y * 9 + 6] = x % 256]
            ELSE [m2 EXCEPT ![objects + x * 9 + 5] = 0]
  IN [hung |-> FALSE, mem |-> m3]

\* A move that leaves the sibling of an object moved to 0.
move_KeepsSibling(m, x, y) ==
  LET z == loc(m, x)
      r == IF z # 0 /\ first(m, z) # x
           THEN walk(m, first(m, z), x, 0, NObj + 1)
           ELSE [hung |-> FALSE, w |-> 0]
      m1 == IF z = 0 THEN m
            ELSE IF first(m, z) = x
                 THEN [m EXCEPT ![objects + z * 9 + 6] = next(m, x)]
                 ELSE [m EXCEPT ![objects + r.w * 9 + 5] = next(m, x)]
      m2 == [m1 EXCEPT ![objects + x * 9 + 4] = y % 256]
      m3 == IF y # 0
            THEN LET m4 == [m2 EXCEPT ![objects + x * 9 + 5] = m2[objects + y * 9 + 6]]
                 IN [m4 EXCEPT ![objects + y * 9 + 6] = x % 256]
            ELSE m2
  IN [hung |-> r.hung, mem |-> IF r.hung THEN m ELSE m3]

move(m, x, y) ==
  LET z == loc(m, x)
      r == IF z # 0 /\ first(m, z) # x
           THEN walk(m, first(m, z), x, 0, NObj + 1)
           ELSE [hung |-> FALSE, w |-> 0]
      m1 == IF z = 0 THEN m
            ELSE IF first(m, z) = x
                 THEN [m EXCEPT ![objects + z * 9 + 6] = next(m, x)]
                 ELSE [m EXCEPT ![objects + r.w * 9 + 5] = next(m, x)]
      m2 == [m1 EXCEPT ![objects + x * 9 + 4] = y % 256]
      m3 == IF y # 0
            THEN LET m4 == [m2 EXCEPT ![objects + x * 9 + 5] = m2[objects + y * 9 + 6]]
                 IN [m4 EXCEPT ![objects + y * 9 + 6] = x % 256]
            ELSE [m2 EXCEPT ![objects + x * 9 + 5] = 0]
  IN [hung |-> r.hung, mem |-> IF r.hung THEN m ELSE m3]

\* The chain first(r), next(first(r)), ... (cut after NObj + 1 objects).
RECURSIVE chainFrom(_, _, _)
chainFrom(m, z, n) ==
  IF z = 0 \/ n = 0 THEN <<>> ELSE <<z>> \o chainFrom(m, next(m, z), n - 1)

Chain(m, r) == chainFrom(m, first(m, r), NObj + 1)

Has(s, x) == \E i \in 1..Len(s) : s[i] = x

Without(s, x) == SelectSeq(s, LAMBDA e : e # x)

RECURSIVE rooted(_, _, _)
rooted(m, x, n) == x = 0 \/ (n > 0 /\ x \in Objs /\ rooted(m, loc(m, x), n - 1))

\* Every object is once in the chain of its parent and in no other chain,
\* parents lead to 0, and an object without parent has no sibling.
WellFormed(m) ==
  /\ \A x \in Objs : rooted(m, x, NObj)
  /\ \A r \in Objs :
       LET c == Chain(m, r)
       IN /\ Len(c) <= NObj
          /\ \A i \in 1..Len(c) : c[i] \in Objs /\ loc(m, c[i]) = r
          /\ \A i, j \in 1..Len(c) : c[i] = c[j] => i = j
  /\ \A x \in Objs : IF loc(m, x) = 0 THEN next(m, x) = 0 ELSE Has(Chain(m, loc(m, x)), x)

ExampleKids == [r \in Objs |-> CASE r = 1 -> <<2, 3>> [] r = 3 -> <<4>> [] OTHER -> <<>>]

MoveInit ==
  /\ rev = "jszm"
  /\ memInit = ObjStory(ExampleKids, [x \in Objs |-> NoTable])
  /\ mem = init(0)
  /\ pc = 0
  /\ ds = <<>>
  /\ cs = <<>>
  /\ savedFlags = 0
  /\ status = "running"
  /\ saved = <<>>
  /\ shown = [fix |-> "none", since |-> {}]
  /\ last = [op |-> "none", x |-> 0, y |-> 0, wf |-> FALSE, again |-> FALSE]
  /\ snap = [op |-> "none"]
  /\ seed = NoSeed

Moved(op, x, y, wf) ==
  LET r == move(mem, x, y)
  IN /\ mem' = r.mem
     /\ status' = IF r.hung THEN "hung" ELSE "running"
     /\ last' = [op |-> op, x |-> x, y |-> y, wf |-> wf,
                 again |-> last.op # "none" /\ last.x = x /\ last.wf]
     /\ UNCHANGED <<seed, rev, memInit, pc, ds, cs, savedFlags, saved, shown, snap>>

MOVE ==
  /\ status = "running"
  /\ \E wf \in {WellFormed(mem)}, x \in Objs, y \in 0..NObj : Moved("MOVE", x, y, wf)

REMOVE ==
  /\ status = "running"
  /\ \E wf \in {WellFormed(mem)}, x \in Objs : Moved("REMOVE", x, 0, wf)

MoveNext == MOVE \/ REMOVE

SpecMove == MoveInit /\ [][MoveNext]_vars

\* C8: after move(o, p) in a well-formed tree and then move(o, q), the parent
\* byte of o is q and o is in the chain of no object other than q.
C8_SecondMoveDecides ==
  last.again =>
    /\ status = "running"
    /\ loc(mem, last.x) = last.y
    /\ \A r \in Objs \ {last.y} : ~Has(Chain(mem, r), last.x)

\* The first move had put o under itself or under one of its descendants, and
\* the second put it before the children of another object.
C8_Witness ==
  /\ last.again
  /\ ~last.wf
  /\ last.y \notin {0, last.x}
  /\ Len(Chain(mem, last.y)) >= 2

\* What move(x, y) makes of a tree m, as the claim has it: n is the tree after.
MoveMakes(m, n, x, y) ==
  LET P == loc(m, x)
      rest == Without(Chain(m, y), x)
  IN /\ loc(n, x) = y
     /\ (P # 0 /\ P # y) => Chain(n, P) = Without(Chain(m, P), x)
     /\ IF y # 0
        THEN /\ first(n, y) = x
             /\ next(n, x) = (IF rest = <<>> THEN 0 ELSE Head(rest))
             /\ Chain(n, y) = <<x>> \o rest
        ELSE next(n, x) = 0

TreeIs(m, kids) ==
  \A x \in Objs : /\ loc(m, x) = ParentOf(kids, x)
                  /\ next(m, x) = SiblingOf(kids, x)
                  /\ first(m, x) = ChildOf(kids, x)

KidsADBC == [r \in Objs |-> IF r = 1 THEN <<4, 2, 3>> ELSE <<>>]
KidsADC == [r \in Objs |-> IF r = 1 THEN <<4, 3>> ELSE <<>>]

\* C9: in a well-formed tree, move(x, y) with y # 0 makes x the first child of
\* y, followed by what y's children were without x, and the other children of
\* x's old parent keep their order; move(x, 0) leaves x without parent and
\* sibling.  A{B, C{D}} becomes A{D, B, C} by move(D, A), and that A{D, C} by
\* move(B, 0).
C9_MoveInsertsAtHead ==
  [][(last'.op \in {"MOVE", "REMOVE"} /\ WellFormed(mem))
       => /\ status' = "running"
          /\ MoveMakes(mem, mem', last'.x, last'.y)
          /\ (TreeIs(mem, ExampleKids) /\ last'.x = 4 /\ last'.y = 1)
               => TreeIs(mem', KidsADBC)
          /\ (TreeIs(mem, KidsADBC) /\ last'.x = 2 /\ last'.y = 0)
               => TreeIs(mem', KidsADC)]_vars

\* B was removed from a well-formed tree and the tree is A{D, C}.
C9_Witness ==
  /\ last.op = "REMOVE"
  /\ last.x = 2
  /\ last.wf
  /\ TreeIs(mem, KidsADC)

(***************************************************************************)
(* SpecProp: GETP on images whose first object has any property table of   *)
(* up to MaxProps entries (numbers of PropNums, data lengths of PropLens,  *)
(* numbers in any order and repeated, a short name of 0 or 1 words) and    *)
(* whose second object has one word property.  snap keeps the tables the   *)
(* image was built from.  propfind and GETP are the same text in both      *)
(* revisions.                                                              *)
(***************************************************************************)
MaxProps == 3
PropNums == {1, 2}
PropLens == {1, 2, 3}
AskedNums == {1, 2, 3}

\* The while loop of propfind: a byte read past the end of memory is
\* undefined, which ends the loop like the terminator.
RECURSIVE propscan(_, _, _)
propscan(m, z, p) ==
  IF z \notin DOMAIN m \/ m[z] = 0 THEN [found |-> FALSE, addr |-> 0]
  ELSE IF m[z] % 32 = p THEN [found |-> TRUE, addr |-> z + 1]
  ELSE propscan(m, z + (m[z] \div 32) + 2, p)

\* A propfind that steps over the length byte of the short name only.
propfind_NameNotSkipped(m, o, p) ==
  propscan(m, getu(m, objects + o * 9 + 7) + 1, p)

propfind(m, o, p) ==
  LET z == getu(m, objects + o * 9 + 7)
  IN propscan(m, z + m[z] * 2 + 1, p)

\* GETP o p (two small constants) and its store byte.
GETP ==
  /\ Fits(4)
  /\ \E o \in {1, 2}, p \in AskedNums, sb \in StoreBytes :
       LET f == propfind(mem, o, p)
           y == IF f.found
                THEN IF Bit(mem[f.addr - 1], 5) THEN get(mem, f.addr) ELSE mem[f.addr]
                ELSE get(mem, defprop + 2 * p)
       IN /\ Install(store(After(3), y, sb))
          /\ last' = [op |-> "GETP", o |-> o, p |-> p]
  /\ UNCHANGED <<seed, rev, memInit, savedFlags, saved, shown, snap>>

PropInit ==
  /\ rev = "jszm"
  /\ \E nm \in 0..1, ps \in SeqsUpTo([num : PropNums, len : PropLens], MaxProps) :
       LET tabs == [x \in Objs |->
                      CASE x = 1 -> [name |-> nm, props |-> ps]
                        [] x = 2 -> [name |-> 1, props |-> << [num |-> 2, len |-> 2] >>]
                        [] OTHER -> NoTable]
       IN /\ memInit = ObjStory(ExampleKids, tabs)
          /\ snap = [tabs |-> tabs]
  /\ mem = init(0)
  /\ pc = getu(memInit, 6)
  /\ ds = <<>>
  /\ cs = <<>>
  /\ savedFlags = 0
  /\ status = "running"
  /\ saved = <<>>
  /\ shown = [fix |-> "none", since |-> {}]
  /\ last = [op |-> "none", o |-> 0, p |-> 0]
  /\ seed = NoSeed

PropNext == GETP

SpecProp == PropInit /\ [][PropNext]_vars

\* The entries of object o numbered p, by their place in its list.
Entries(o, p) ==
  { i \in 1..Len(snap.tabs[o].props) : snap.tabs[o].props[i].num = p }

FirstEntry(o, p) == CHOOSE i \in Entries(o, p) : \A j \in Entries(o, p) : i <= j

\* Where the data of entry i of object o was laid down.
RECURSIVE DataAt(_, _)
DataAt(o, i) ==
  IF i = 1 THEN TableAt(snap.tabs, o) + 1 + 2 * snap.tabs[o].name + 1
  ELSE DataAt(o, i - 1) + snap.tabs[o].props[i - 1].len + 1

\* C10: GETP o p stores the byte at the data address of the first entry of o
\* numbered p, zero-extended, when that entry has one data byte, the word
\* there when it has two, and default word p when o has no entry numbered p.
C10_GetpValue ==
  last.op = "GETP" =>
    /\ status = "running"
    /\ ds # <<>>
    /\ LET o == last.o
           p == last.p
           v == ds[Len(ds)]
       IN IF Entries(o, p) = {} THEN ToUint16(v) = DefaultWord(p)
          ELSE LET i == FirstEntry(o, p)
                   a == DataAt(o, i)
                   n == snap.tabs[o].props[i].len
               IN /\ n = 1 => v = DataByte(a)
                  /\ n = 2 => ToUint16(v) = 256 * DataByte(a) + DataByte(a + 1)

\* The word of the second entry was stored, a negative one, after a longer
\* entry with another number and before a one-byte entry with the same
\* number, under a short name of one word.
C10_Witness ==
  /\ last.op = "GETP"
  /\ last.o = 1
  /\ snap.tabs[1].name = 1
  /\ Entries(1, last.p) = {2, 3}
  /\ snap.tabs[1].props[1].len = 3
  /\ snap.tabs[1].props[2].len = 2
  /\ snap.tabs[1].props[3].len = 1
  /\ ds # <<>>
  /\ ds[Len(ds)] < 0

(***************************************************************************)
(* SpecPutp: PUTP beside GETP on the image of SpecProp.  PUTP is drawn in  *)
(* the variable form with three constant operands, the value a small or a  *)
(* large constant.  snap also keeps the operands of the last PUTP and the  *)
(* working memory it found.                                                *)
(***************************************************************************)
PutValues == {7, 4660}

NoPut == [o |-> 0, p |-> 0, v |-> 0]

\* The body of PUTP once propfind has returned op3: mem[op3 - 1] is
\* undefined at op3 = 0, and undefined & 32 is 0.
putp(m, op3, v) ==
  IF op3 - 1 \in DOMAIN m /\ Bit(m[op3 - 1], 5) THEN put(m, op3, v)
  ELSE [m EXCEPT ![op3] = v % 256]

PUTP ==
  /\ \E o \in {1, 2}, p \in AskedNums, v \in PutValues :
       \E n \in {IF v < 256 THEN 5 ELSE 6} :
         /\ Fits(n)
         /\ Install([After(n) EXCEPT !.mem = putp(@, propfind(mem, o, p).addr, v)])
         /\ last' = [op |-> "PUTP", o |-> o, p |-> p]
         /\ snap' = [snap EXCEPT !.put = [o |-> o, p |-> p, v |-> v], !.before = mem]
  /\ UNCHANGED <<seed, rev, memInit, savedFlags, saved, shown>>

PutpInit ==
  /\ rev \in {"jszm", "part"}
  /\ \E nm \in 0..1, ps \in SeqsUpTo([num : PropNums, len : PropLens], MaxProps) :
       LET tabs == [x \in Objs |->
                      CASE x = 1 -> [name |-> nm, props |-> ps]
                        [] x = 2 -> [name |-> 1, props |-> << [num |-> 2, len |-> 2] >>]
                        [] OTHER -> NoTable]
       IN /\ memInit = ObjStory(ExampleKids, tabs)
          /\ snap = [tabs |-> tabs, put |-> NoPut, before |-> memInit]
  /\ mem = init(0)
  /\ pc = getu(memInit, 6)
  /\ ds = <<>>
  /\ cs = <<>>
  /\ savedFlags = 0
  /\ status = "running"
  /\ saved = <<>>
  /\ shown = [fix |-> "none", since |-> {}]
  /\ last = [op |-> "none", o |-> 0, p |-> 0]
  /\ seed = NoSeed

PutpNext == PUTP \/ GETP

SpecPutp == PutpInit /\ [][PutpNext]_vars

\* The bytes in which working memory m differs from b.
Changed(m, b) == { x \in DOMAIN m : m[x] # b[x] }

\* What PUTP o p v leaves of the memory it found, and what a GETP o p after
\* it stores, for an entry of n data bytes at a.
PutpLeft(a, n, v) ==
  /\ Changed(mem, snap.before) \subseteq (IF n = 1 THEN {a} ELSE {a, a + 1})
  /\ IF n = 1 THEN mem[a] = v % 256 ELSE getu(mem, a) = v % 65536

GetpAfter(n, v) ==
  /\ ds # <<>>
  /\ ToUint16(ds[Len(ds)]) = (IF n = 1 THEN v % 256 ELSE v % 65536)

\* C40: PUTP o p v with no entry numbered p in the list of o leaves working
\* memory as it found it (the header with it); with such an entry it
\* changes no byte but the data of the first one, one byte set to v mod 256
\* if the entry has one data byte and the word set to v otherwise, and a
\* GETP o p after it stores v mod 256 for the one-byte entry, v otherwise.
C40_PutpFrame ==
  /\ last.op = "PUTP" =>
       IF Entries(last.o, last.p) = {} THEN mem = snap.before
       ELSE PutpLeft(DataAt(last.o, FirstEntry(last.o, last.p)),
                     snap.tabs[last.o].props[FirstEntry(last.o, last.p)].len,
                     snap.put.v)
  /\ (last.op = "GETP" /\ snap.put # NoPut /\ snap.put.o = last.o
        /\ snap.put.p = last.p /\ Entries(last.o, last.p) # {}) =>
       GetpAfter(snap.tabs[last.o].props[FirstEntry(last.o, last.p)].len, snap.put.v)

\* PUTP on an absent property has overwritten the version byte of the header.
C40_HeaderWritten ==
  /\ last.op = "PUTP"
  /\ Entries(last.o, last.p) = {}
  /\ mem[0] # memInit[0]

\* The same statement for the entries of one or two data bytes only.
C40_PutpFrameWordOrByte ==
  /\ (last.op = "PUTP" /\ Entries(last.o, last.p) # {}
        /\ snap.tabs[last.o].props[FirstEntry(last.o, last.p)].len <= 2) =>
       PutpLeft(DataAt(last.o, FirstEntry(last.o, last.p)),
                snap.tabs[last.o].props[FirstEntry(last.o, last.p)].len,
                snap.put.v)
  /\ (last.op = "GETP" /\ snap.put # NoPut /\ snap.put.o = last.o
        /\ snap.put.p = last.p /\ Entries(last.o, last.p) # {}
        /\ snap.tabs[last.o].props[FirstEntry(last.o, last.p)].len <= 2) =>
       GetpAfter(snap.tabs[last.o].props[FirstEntry(last.o, last.p)].len, snap.put.v)

(***************************************************************************)
(* SpecVar: the variable namespace.  VarStory is an image of 528 bytes     *)
(* whose globals base puts variable 16 at 32 and variable 255 at 510, with *)
(* one routine at 520 (packed address 260, one local).  Init draws the     *)
(* data stack and the current frame (none, MaxLocals locals, 15 locals);   *)
(* the instructions are SET, VALUE, PUSH, POP and CALL, their operands     *)
(* drawn, in the VarCodeLen bytes from the initial PC.  SpecStack is the   *)
(* same machine under PUSH and POP alone, in StackCodeLen bytes.  last     *)
(* tells the instruction executed: the variable it named (NoVar if none),  *)
(* the value it wrote, the value it read, its operands and its store byte. *)
(* snap follows PUSH c, POP 0, PUSH c', POP 0 (c, c' constants): phase     *)
(* counts the instructions of the pattern seen, ds is the data stack       *)
(* before the first of them, xs the constants pushed.  The closures are    *)
(* the same text in both revisions.                                        *)
(***************************************************************************)
VarCodeLen == 8
StackCodeLen == 14
NoVar == 256

VarStory ==
  [i \in 0..527 |->
     CASE i = 0 -> 3
       [] i = 6 -> 2        \* initial PC 512
       [] i = 13 -> 32      \* globals base: variable 16 at 32
       [] i = 14 -> 2       \* PURBOT 512
       [] i = 32 -> 128     \* variable 16 is -32767
       [] i = 33 -> 1
       [] i = 511 -> 9      \* variable 255 is 9
       [] i = 520 -> 1      \* the routine: one local, default 9
       [] i = 522 -> 9
       [] OTHER -> 0]

VarIdx == {0, 1, MaxLocals, 15, 16, 255}
Words == {-32768, -1, 32767}
StoreDests == {0, 1, 16}
VarStacks == {<<>>, <<5>>, <<5, -6>>}
VarFrame(k) == [pc |-> 600, ds |-> <<3>>, local |-> Ramp(-2, k), named |-> TRUE]

\* The operand lists of the story's CALL instructions after the routine:
\* none, a constant, the top of the stack, a constant with a local and the
\* top of the stack.
CallOperands ==
  { <<>>,
    << [type |-> 0, raw |-> 7] >>,
    << [type |-> 2, raw |-> 0] >>,
    << [type |-> 1, raw |-> 7], [type |-> 2, raw |-> 1], [type |-> 2, raw |-> 0] >> }

InCode(n, len) == status = "running" /\ pc >= CodeLo /\ pc + n <= CodeLo + len

Ran(M) ==
  /\ mem' = M.mem
  /\ pc' = M.pc
  /\ ds' = M.ds
  /\ cs' = M.cs
  /\ status' = Caught(M)

Told(op, v, x, got, os, sb) ==
  /\ last' = [op |-> op, v |-> v, x |-> x, got |-> got, os |-> os, sb |-> sb]
  /\ snap' = IF op = "PUSH" /\ v = NoVar
             THEN IF snap.phase = 2 THEN [snap EXCEPT !.phase = 3, !.xs = Append(@, x)]
                  ELSE [phase |-> 1, ds |-> ds, xs |-> <<x>>]
             ELSE IF op = "POP" /\ v = 0 /\ snap.phase \in {1, 3}
                  THEN [snap EXCEPT !.phase = @ + 1]
                  ELSE [phase |-> 0, ds |-> <<>>, xs |-> <<>>]
  /\ UNCHANGED <<seed, rev, memInit, savedFlags, saved, shown>>

VarInit ==
  /\ rev = "jszm"
  /\ memInit = VarStory
  /\ mem = init(0)
  /\ pc = getu(VarStory, 6)
  /\ ds \in VarStacks
  /\ cs \in {<<>>, << VarFrame(MaxLocals) >>, << VarFrame(15) >>}
  /\ savedFlags = 0
  /\ status = "running"
  /\ saved = <<>>
  /\ shown = [fix |-> "none", since |-> {}]
  /\ last = [op |-> "none", v |-> NoVar, x |-> 0, got |-> 0, os |-> <<>>, sb |-> 0]
  /\ snap = [phase |-> 0, ds |-> <<>>, xs |-> <<>>]
  /\ seed = NoSeed

\* SET loc value, a small constant and a large one (CD 4F loc hi lo).
SET ==
  /\ InCode(5, VarCodeLen)
  /\ \E v \in VarIdx, x \in Words :
       /\ Ran(xstore(After(5), v, x))
       /\ Told("SET", v, x, 0, <<>>, 0)

\* VALUE loc, a small constant (9E loc), and its store byte.
VALUE ==
  /\ InCode(3, VarCodeLen)
  /\ \E v \in VarIdx, sb \in StoreDests :
       LET f == xfetch(After(2), v)
       IN IF f.M.thrown
          THEN Ran(f.M) /\ Told("VALUE", v, 0, 0, <<>>, sb)
          ELSE /\ f.r.def
               /\ Ran(store(f.M, f.r.v, sb))
               /\ Told("VALUE", v, f.r.v, f.r.v, <<>>, sb)

\* PUSH a: a large constant (E8 3F hi lo) or a variable (E8 BF v).
Pushes(len, vs) ==
  \E o \in {[type |-> 0, raw |-> x] : x \in Words} \cup {[type |-> 2, raw |-> v] : v \in vs} :
    LET g == getParameterByType(After(2), o)
    IN /\ InCode(g.M.pc - pc, len)
       /\ IF g.M.thrown
          THEN Ran(g.M) /\ Told("PUSH", o.raw, 0, 0, <<o>>, 0)
          ELSE /\ g.r.def
               /\ Ran([g.M EXCEPT !.ds = Append(@, g.r.v)])
               /\ Told("PUSH", IF o.type = 2 THEN o.raw ELSE NoVar, g.r.v, g.r.v, <<o>>, 0)

\* POP loc, a small constant (E9 7F loc): xstore(loc, ds.pop()).  The pop of
\* an empty stack is undefined, which an Int16Array and setInt16 store as 0.
Pops(len, vs) ==
  /\ InCode(3, len)
  /\ \E v \in vs :
       LET M == After(3)
           y == IF ds = <<>> THEN 0 ELSE ds[Len(ds)]
           M1 == IF ds = <<>> THEN M ELSE [M EXCEPT !.ds = SubSeq(@, 1, Len(@) - 1)]
       IN /\ Ran(xstore(M1, v, y))
          /\ Told("POP", v, y, y, <<>>, 0)

\* CALL method ...: the routine as a large constant (0, or the routine of the
\* image), then the operands of CallOperands, then the store byte.
VarCALL ==
  \E method \in {0, 260}, os \in CallOperands, sb \in StoreDests :
    LET g == getParameters(After(4), os)
    IN /\ InCode(g.M.pc - pc + 1, VarCodeLen)
       /\ Len(cs) < MaxCs
       /\ \A i \in 1..Len(os) : g.rs[i].def
       /\ Ran(IF g.M.thrown THEN g.M ELSE call(g.M, method, g.rs, sb))
       /\ Told("CALL", NoVar, method, 0, os, sb)

VarPUSH == Pushes(VarCodeLen, VarIdx)

POP == Pops(VarCodeLen, VarIdx)

VarNext == SET \/ VALUE \/ VarPUSH \/ POP \/ VarCALL

SpecVar == VarInit /\ [][VarNext]_vars

StackPUSH == Pushes(StackCodeLen, {0})

StackPOP == Pops(StackCodeLen, {0, 1, 16})

StackNext == StackPUSH \/ StackPOP

SpecStack == VarInit /\ [][StackNext]_vars

\* C11: after xstore(v, x) for v in 1..255 naming a local of the current frame
\* or a global, and x a signed 16-bit value, xfetch(v) is x and fetch(v) is x
\* and leaves the data stack as it is: SET v x followed by VALUE v reads x,
\* followed by PUSH of variable v pushes x on the stack as SET left it.
C11_StoreThenFetch ==
  /\ [](last.op = "SET" /\ last.v # 0 /\ Named(Cur, last.v)
          => /\ status = "running"
             /\ xfetch(Cur, last.v).r = Value(last.x)
             /\ fetch(Cur, last.v).r = Value(last.x)
             /\ fetch(Cur, last.v).M.ds = ds)
  /\ [][(last.op = "SET" /\ last.v # 0 /\ Named(Cur, last.v) /\ last'.v = last.v)
          => /\ last'.op = "VALUE" => last'.got = last.x
             /\ last'.op = "PUSH" => (last'.got = last.x /\ ds' = Append(ds, last.x))]_vars

\* The last global, set to -1, was pushed over a stack of two elements.
C11_Witness ==
  /\ last.op = "PUSH"
  /\ last.v = 255
  /\ last.got = -1
  /\ Len(ds) = 3
  /\ get(mem, globals + 510) = -1

\* C12 as claimed: after PUSH c, POP 0, PUSH c', POP 0 on a data stack of at
\* least one element, the stack has the depth and the top it had before.
C12_TwoPairsRestoreTop ==
  (snap.phase = 4 /\ snap.ds # <<>>)
    => /\ Len(ds) = Len(snap.ds)
       /\ ds[Len(ds)] = snap.ds[Len(snap.ds)]

\* C12 amended: after PUSH c, POP 0, PUSH c', POP 0 on a data stack of at
\* least one element, the stack has the depth it had before, its top is c'
\* (each POP 0 overwrites the element under the one it pops), and the
\* elements under the top are what they were.
C12_TwoPairsLeaveLastPushed ==
  (snap.phase = 4 /\ snap.ds # <<>>)
    => /\ status = "running"
       /\ Len(ds) = Len(snap.ds)
       /\ ds[Len(ds)] = snap.xs[2]
       /\ \A i \in 1..(Len(ds) - 1) : ds[i] = snap.ds[i]

\* Two pairs with different constants over a stack of two elements.
C12_Witness ==
  /\ snap.phase = 4
  /\ snap.ds = <<5, -6>>
  /\ snap.xs = <<-1, 32767>>
  /\ ds = <<5, 32767>>

\* How many of the operands os are fetched from variable 0.
Popped(os) == Cardinality({ i \in 1..Len(os) : os[i].type = 2 /\ os[i].raw = 0 })

\* C13 as claimed: CALL with routine 0 pushes no frame and leaves the data
\* stack as it was before the instruction.
C13_CallZeroKeepsStacks ==
  [][(last'.op = "CALL" /\ last'.x = 0)
       => (Len(cs') = Len(cs) /\ ds' = ds)]_vars

\* C13 amended: CALL with routine 0 stores 0 in the variable its store byte
\* names (a local of the current frame, a global, or variable 0, where it is
\* pushed) and pushes no frame; the frames keep their saved PC and stack, and
\* the data stack is what it was without the elements its operands popped,
\* under the 0 pushed if the store byte is 0.
C13_CallZeroStoresZero ==
  [][(last'.op = "CALL" /\ last'.x = 0 /\ (last'.sb = 0 \/ Named(Cur, last'.sb)))
       => LET sb == last'.sb
              kept == SubSeq(ds, 1, Len(ds) - Popped(last'.os))
          IN /\ status' = "running"
             /\ Len(cs') = Len(cs)
             /\ \A i \in 1..Len(cs) : cs'[i].pc = cs[i].pc /\ cs'[i].ds = cs[i].ds
             /\ ds' = (IF sb = 0 THEN Append(kept, 0) ELSE kept)
             /\ (sb # 0 /\ sb < 16) => cs'[1].local[sb] = 0
             /\ sb >= 16 => get(mem', globals + 2 * sb) = 0]_vars

\* Routine 0 was called with three operands, one of them popped, and its
\* result pushed where the popped element was.
C13_Witness ==
  /\ last.op = "CALL"
  /\ last.x = 0
  /\ Len(last.os) = 3
  /\ last.sb = 0
  /\ status = "running"
  /\ ds = <<5, 0>>
  /\ Len(cs) = 1

(***************************************************************************)
(* SpecAlu: ADD, SUB, MUL, DIV, MOD and RANDOM on the machine of SpecVar.  *)
(* Init draws the data stack and the seed; the operands are large          *)
(* constants drawn from AluWords (RANDOM: from Ranges), the store byte     *)
(* from StoreDests; the instructions lie in the AluCodeLen bytes from the  *)
(* initial PC.  last tells the instruction executed: its operands a and b, *)
(* the value y it handed to store() and its store byte.  The handlers are  *)
(* the same text in both revisions.                                        *)
(***************************************************************************)
AluCodeLen == 10
AluWords == {-32768, -3, -1, 5, 32767}
Ranges == {-32768, -1, 0, 1, 6, 32767}

Abs(x) == IF x < 0 THEN 0 - x ELSE x

\* A quotient rounded down.
trunc_Floors(a, b) ==
  LET q == Abs(a) \div Abs(b)
  IN IF (a < 0) = (b < 0) THEN q
     ELSE IF q * Abs(b) = Abs(a) THEN 0 - q ELSE 0 - q - 1

\* Math.trunc(a / b), b # 0.  For operands of 16 bits the double a / b is
\* off by less than the distance of the exact quotient from an integer it
\* is not equal to.
trunc(a, b) ==
  LET q == Abs(a) \div Abs(b)
  IN IF (a < 0) = (b < 0) THEN q ELSE 0 - q

\* a % b of JavaScript, b # 0: the sign of a.
rem(a, b) ==
  LET r == Abs(a) % Abs(b)
  IN IF a < 0 THEN 0 - r ELSE r

\* Math.imul(a, b): the product in 32 bits, which the product of two
\* operands of 16 bits fits.
imul(a, b) == a * b

\* (1664525 * seed + 1013904223) >>> 0 on the halves of the seed:
\* 1664525 = 25 * 2^16 + 26125, 1013904223 = 15470 * 2^16 + 62303.
lcg(s) ==
  LET lo == 26125 * s[2] + 62303
      cross == (25 * s[2] + 26125 * s[1]) % 65536
  IN << (cross + 15470 + lo \div 65536) % 65536, lo % 65536 >>

\* Math.floor((seed / 0xFFFFFFFF) * range) for 0 < range < 2^15: seed * range
\* is q * 2^32 + t * 2^16 + l, and its quotient by 2^32 - 1 is q, or q + 1 if
\* q + t * 2^16 + l reaches 2^32 - 1.  Where seed * range is a multiple of
\* 2^32 - 1 other than by seed = 0 or seed = 2^32 - 1 (which divide exactly)
\* the rounding of the two double operations decides between that quotient
\* and the integer below it.
scaled(s, range) ==
  LET B == s[2] * range
      T == s[1] * range + B \div 65536
      q == T \div 65536
      t == T % 65536
      l == B % 65536
      f == IF t = 65535 /\ 65535 - l <= q THEN q + 1 ELSE q
      whole == t = 65535 /\ 65535 - l = q
  IN IF whole /\ s # <<65535, 65535>> THEN {f - 1, f} ELSE {f}

\* range >>> 0 for a negative range of 16 bits.
ToUint32(range) == << 65535, range % 65536 >>

AluInit ==
  /\ rev = "jszm"
  /\ memInit = VarStory
  /\ mem = init(0)
  /\ pc = getu(VarStory, 6)
  /\ ds \in {<<>>, <<5>>}
  /\ cs = << VarFrame(MaxLocals) >>
  /\ savedFlags = 0
  /\ status = "running"
  /\ saved = <<>>
  /\ shown = [fix |-> "none", since |-> {}]
  /\ last = [op |-> "none", a |-> 0, b |-> 0, y |-> 0, sb |-> 0]
  /\ snap = [op |-> "none"]
  /\ seed \in SeedDraws

\* A 2OP instruction in variable form with two large constants and a store
\* byte (opcode, 0F, a, b, sb): store(y).
Stored(op, a, b, y, sb) ==
  /\ Ran(store(After(6), y, sb))
  /\ last' = [op |-> op, a |-> a, b |-> b, y |-> y, sb |-> sb]
  /\ UNCHANGED <<rev, memInit, savedFlags, saved, shown, snap>>

ADD ==
  /\ InCode(7, AluCodeLen)
  /\ \E a \in AluWords, b \in AluWords, sb \in StoreDests : Stored("ADD", a, b, a + b, sb)
  /\ UNCHANGED seed

SUB ==
  /\ InCode(7, AluCodeLen)
  /\ \E a \in AluWords, b \in AluWords, sb \in StoreDests : Stored("SUB", a, b, a - b, sb)
  /\ UNCHANGED seed

MUL ==
  /\ InCode(7, AluCodeLen)
  /\ \E a \in AluWords, b \in AluWords, sb \in StoreDests : Stored("MUL", a, b, imul(a, b), sb)
  /\ UNCHANGED seed

\* (A divisor 0 makes a / b Infinity or NaN; the stories of the model have none.)
DIV ==
  /\ InCode(7, AluCodeLen)
  /\ \E a \in AluWords, b \in AluWords, sb \in StoreDests : Stored("DIV", a, b, trunc(a, b), sb)
  /\ UNCHANGED seed

MOD ==
  /\ InCode(7, AluCodeLen)
  /\ \E a \in AluWords, b \in AluWords, sb \in StoreDests : Stored("MOD", a, b, rem(a, b), sb)
  /\ UNCHANGED seed

\* A RANDOM that steps the generator after seeding it.
random_StepsAfterSeeding(s, range) ==
  IF range = 0 THEN { [seed |-> d, y |-> 0] : d \in SeedDraws }
  ELSE IF range < 0 THEN { [seed |-> lcg(ToUint32(range)), y |-> 0] }
  ELSE { [seed |-> lcg(s), y |-> f + 1] : f \in scaled(lcg(s), range) }

\* The handler of RANDOM on the generator state s: the states it can leave
\* and the value y it hands to store() with each.
random(s, range) ==
  IF range = 0 THEN { [seed |-> d, y |-> 0] : d \in SeedDraws }
  ELSE IF range < 0 THEN { [seed |-> ToUint32(range), y |-> 0] }
  ELSE { [seed |-> lcg(s), y |-> f + 1] : f \in scaled(lcg(s), range) }

\* RANDOM range with a large constant and a store byte (E7 3F hi lo sb).
RANDOM ==
  /\ InCode(5, AluCodeLen)
  /\ \E range \in Ranges, sb \in StoreDests :
       \E o \in random(seed, range) :
          /\ seed' = o.seed
          /\ Ran(store(After(4), o.y, sb))
          /\ last' = [op |-> "RANDOM", a |-> range, b |-> 0, y |-> o.y, sb |-> sb]
  /\ UNCHANGED <<rev, memInit, savedFlags, saved, shown, snap>>

AluNext == ADD \/ SUB \/ MUL \/ DIV \/ MOD \/ RANDOM

SpecAlu == AluInit /\ [][AluNext]_vars

\* The value in the variable the store byte of the last instruction names.
Delivered == xfetch(Cur, last.sb).r.v

\* C14: RANDOM with a non-positive argument stores 0, and with a positive
\* argument r a value from 1 to r, whatever the state of the generator.
C14_RandomInRange ==
  last.op = "RANDOM" =>
    IF last.a <= 0 THEN Delivered = 0 ELSE (1 <= Delivered /\ Delivered <= last.a)

\* C15: the value ADD, SUB and MUL leave in their result variable (the data
\* stack, a local, a global) is the exact result in signed 16-bit two's
\* complement.
C15_ArithmeticWraps ==
  /\ last.op = "ADD" => Delivered = ToInt16(last.a + last.b)
  /\ last.op = "SUB" => Delivered = ToInt16(last.a - last.b)
  /\ last.op = "MUL" => Delivered = ToInt16(last.a * last.b)

\* The pair (quotient, remainder) of a by b with the quotient truncated
\* toward zero: q * b + r = a, r smaller than b and of the sign of a.
Divides(a, b, q, r) ==
  /\ q * b + r = a
  /\ Abs(r) < Abs(b)
  /\ r # 0 => ((r < 0) = (a < 0))

\* C16 as claimed: for all a and b # 0 of 16 bits, what DIV delivers and what
\* MOD delivers are the quotient truncated toward zero and the remainder of
\* the sign of a; 5 and -3 give -1 and 2.
C16_DivModIdentity ==
  /\ last.op = "DIV" => Divides(last.a, last.b, Delivered, rem(last.a, last.b))
  /\ last.op = "MOD" => Divides(last.a, last.b, trunc(last.a, last.b), Delivered)
  /\ (last.op = "DIV" /\ last.a = 5 /\ last.b = -3) => Delivered = -1
  /\ (last.op = "MOD" /\ last.a = 5 /\ last.b = -3) => Delivered = 2

\* C16 amended: the same for all a and b # 0 of 16 bits other than -32768 and
\* -1, whose quotient 32768 is no signed 16-bit value.
C16_DivModIdentityInRange ==
  ~(last.a = -32768 /\ last.b = -1) => C16_DivModIdentity

\* The remainder of -32768 by 5 went to a global: -3.
C16_Witness ==
  /\ last.op = "MOD"
  /\ last.a = -32768
  /\ last.b = 5
  /\ last.sb = 16
  /\ get(mem, globals + 32) = -3

(***************************************************************************)
(* Text.  A string is a run of 16-bit words of three 5-bit characters, the *)
(* last word with its top bit set.  Texts are sequences of character       *)
(* codes.  getText(m, addr, n) is [ok, out, end]: ok is FALSE if an        *)
(* exception leaves getText (a word read past the end of memory, or        *)
(* abbreviations nested deeper than n, as a cycle of abbreviations nests   *)
(* without end), out is the text returned, end the value of this.endText.  *)
(***************************************************************************)
NestMax == 3

\* "abcdefghijklmnopqrstuvwxyzABCDEFGHIJKLMNOPQRSTUVWXYZ*\n0123456789.,!?_#'\"/\\-:()"
Alphabet ==
  << 97, 98, 99, 100, 101, 102, 103, 104, 105, 106, 107, 108, 109,
     110, 111, 112, 113, 114, 115, 116, 117, 118, 119, 120, 121, 122,
     65, 66, 67, 68, 69, 70, 71, 72, 73, 74, 75, 76, 77,
     78, 79, 80, 81, 82, 83, 84, 85, 86, 87, 88, 89, 90,
     42, 10, 48, 49, 50, 51, 52, 53, 54, 55, 56, 57, 46,
     44, 33, 63, 95, 35, 39, 34, 47, 92, 45, 58, 40, 41 >>

fwords == getu(memInit, 24)

InMem(m, a, n) == a >= 0 /\ a + n <= Cardinality(DOMAIN m)

\* splitBytes(w, 1, 5, 5, 5) without its first element.
splitChars(w) == << (w \div 1024) % 32, (w \div 32) % 32, w % 32 >>

\* A reader that takes one word for the whole string.
getEncodedChars_OneWord(m, addr) ==
  IF ~InMem(m, addr, 2) THEN [ok |-> FALSE, zs |-> <<>>, end |-> addr]
  ELSE [ok |-> TRUE, zs |-> splitChars(getu(m, addr)), end |-> addr + 2]

\* getEncodedChars: the characters of the words from addr up to the first
\* word with the top bit set, and addr as the generator leaves it.
RECURSIVE getEncodedChars(_, _)
getEncodedChars(m, addr) ==
  IF ~InMem(m, addr, 2) THEN [ok |-> FALSE, zs |-> <<>>, end |-> addr]
  ELSE LET w == getu(m, addr)
       IN IF w >= 32768 THEN [ok |-> TRUE, zs |-> splitChars(w), end |-> addr + 2]
          ELSE LET r == getEncodedChars(m, addr + 2)
               IN [ok |-> r.ok, zs |-> splitChars(w) \o r.zs, end |-> r.end]

\* output += String.fromCharCode(a), "\n" for 13, nothing for 0.
Ascii(out, a) == IF a = 13 THEN Append(out, 10) ELSE IF a # 0 THEN Append(out, a) ELSE out

\* Characters 4 and 5 locking whatever shift is pending.
Shifted_LocksAny(st, c) ==
  IF st.ts = 0 THEN [st EXCEPT !.ts = c - 3]
  ELSE [st EXCEPT !.ps = c - 3, !.ts = c - 3]

\* Characters 4 and 5 on the shifts [ps, ts].
Shifted(st, c) ==
  IF st.ts = 0 THEN [st EXCEPT !.ts = c - 3]
  ELSE IF st.ts = c - 3 THEN [st EXCEPT !.ps = st.ts]
  ELSE [st EXCEPT !.ps = 0, !.ts = 0]

RECURSIVE getTextIn(_, _, _, _)
RECURSIVE chars_jszm(_, _, _, _)
RECURSIVE chars_part(_, _, _, _)

\* The abbreviation numbered i, appended to the output of st.
Expanded(st, t) ==
  [st EXCEPT !.out = @ \o t.out, !.ok = t.ok, !.deep = t.deep, !.ts = st.ps]

\* output += this.getText(this.getu(this.fwords + i * 2) * 2) in the
\* revision r, and temporaryShift = permanentShift after it.
Abbreviated(r, m, st, i, n) ==
  IF ~InMem(m, fwords + i * 2, 2) THEN [st EXCEPT !.ok = FALSE]
  ELSE Expanded(st, getTextIn(r, m, getu(m, fwords + i * 2) * 2, n - 1))

\* A turn that leaves the temporary shift on after an alphabet character.
turn_jszm_KeepsShift(m, st, c, n) ==
  IF st.ts = 3 THEN [st EXCEPT !.aux = c * 32, !.ts = 4]
  ELSE IF st.ts = 4
    THEN [st EXCEPT !.aux = @ + c, !.out = Ascii(@, st.aux + c), !.ts = st.ps]
  ELSE IF st.ts = 5 THEN Abbreviated("jszm", m, st, st.aux + c, n)
  ELSE IF c = 0 THEN [st EXCEPT !.out = Append(@, 32)]
  ELSE IF c < 4 THEN [st EXCEPT !.ts = 5, !.aux = (c - 1) * 32]
  ELSE IF c < 6 THEN Shifted(st, c)
  ELSE IF c = 6 /\ st.ts = 2 THEN [st EXCEPT !.ts = 3]
  ELSE [st EXCEPT !.out = Append(@, Alphabet[st.ts * 26 + c - 6 + 1])]

\* One turn of the loop of getText in src/jszm.js on the character c:
\* temporaryShift 3 and 4 are the two halves of a character code, 5 the
\* number of an abbreviation.
turn_jszm(m, st, c, n) ==
  IF st.ts = 3 THEN [st EXCEPT !.aux = c * 32, !.ts = 4]
  ELSE IF st.ts = 4
    THEN [st EXCEPT !.aux = @ + c, !.out = Ascii(@, st.aux + c), !.ts = st.ps]
  ELSE IF st.ts = 5 THEN Abbreviated("jszm", m, st, st.aux + c, n)
  ELSE IF c = 0 THEN [st EXCEPT !.out = Append(@, 32)]
  ELSE IF c < 4 THEN [st EXCEPT !.ts = 5, !.aux = (c - 1) * 32]
  ELSE IF c < 6 THEN Shifted(st, c)
  ELSE IF c = 6 /\ st.ts = 2 THEN [st EXCEPT !.ts = 3]
  ELSE [st EXCEPT !.out = Append(@, Alphabet[st.ts * 26 + c - 6 + 1]), !.ts = st.ps]

\* The loop of getText in src/jszm.js, one character per turn.
chars_jszm(m, zs, st, n) ==
  IF zs = <<>> \/ ~st.ok THEN st
  ELSE chars_jszm(m, Tail(zs), turn_jszm(m, st, Head(zs), n), n)

\* One turn of the loop of getText in src/unnamed/part_000 on the characters
\* zs still to come, as [st, zs] after it: an abbreviation and a character
\* code take their further characters at once, and the end of the string
\* inside them (StopIteration) ends the loop with nothing done.
turn_part(m, zs, st, n) ==
  LET c == Head(zs)
      r == Tail(zs)
  IN IF c = 0 THEN [st |-> [st EXCEPT !.out = Append(@, 32)], zs |-> r]
     ELSE IF c < 4
       THEN IF r = <<>> THEN [st |-> st, zs |-> <<>>]
            ELSE [st |-> Abbreviated("part", m, st, (c - 1) * 32 + Head(r), n),
                  zs |-> Tail(r)]
     ELSE IF c < 6 THEN [st |-> Shifted(st, c), zs |-> r]
     ELSE IF c = 6 /\ st.ts = 2
       THEN IF Len(r) < 2 THEN [st |-> st, zs |-> <<>>]
            ELSE [st |-> [st EXCEPT !.out = Ascii(@, r[1] * 32 + r[2]), !.ts = st.ps],
                  zs |-> Tail(Tail(r))]
     ELSE [st |-> [st EXCEPT !.out = Append(@, Alphabet[st.ts * 26 + c - 6 + 1]),
                             !.ts = st.ps],
           zs |-> r]

\* The turns after the turn t.
turns_part(m, t, n) == chars_part(m, t.zs, t.st, n)

\* The loop of getText in src/unnamed/part_000.
chars_part(m, zs, st, n) ==
  IF zs = <<>> \/ ~st.ok THEN st
  ELSE turns_part(m, turn_part(m, zs, st, n), n)

\* The variables of getText as its loop begins on the characters e.
Begun(e) == [out |-> <<>>, ps |-> 0, ts |-> 0, aux |-> 0, ok |-> e.ok, deep |-> FALSE]

\* The loop of the revision r over the characters e of the generator, and
\* what getText returns after it.
Looped(r, m, e, n) ==
  IF r = "jszm" THEN chars_jszm(m, e.zs, Begun(e), n)
  ELSE chars_part(m, e.zs, Begun(e), n)

Returned(st, e) == [ok |-> st.ok, out |-> st.out, end |-> e.end, deep |-> st.deep]

Decoded(r, m, e, n) == Returned(Looped(r, m, e, n), e)

\* getText(addr) of the revision r with room for n activations of getText
\* on the stack: deep is TRUE if the decoding asked for more.
getTextIn(r, m, addr, n) ==
  IF n = 0 THEN [ok |-> FALSE, out |-> <<>>, end |-> addr, deep |-> TRUE]
  ELSE Decoded(r, m, getEncodedChars(m, addr), n)

getText(m, addr, n) == getTextIn(rev, m, addr, n)

(***************************************************************************)
(* SpecText: the printing instructions over a story whose strings are      *)
(* drawn.  The abbreviation table is at 32: abbreviation 0 is "the",       *)
(* abbreviation 1 is "a" followed by abbreviation 0, abbreviation 2 is     *)
(* "The0" in two words, abbreviation 3 is itself.  The code is at 50:      *)
(* PRINTB of the main string, PRINTI with the main string after its opcode *)
(* byte, and after that string PRINT of the main string.  The main string  *)
(* is a piece, an abbreviation escape (or none) and a piece, packed with   *)
(* padding 5.  snap keeps the pieces drawn; last is the text the last      *)
(* instruction handed to genPrint, with this.endText after it.             *)
(***************************************************************************)
PrePieces == { <<>>, <<13, 14>>, <<13, 0, 5, 18>> }
Escapes == { <<>>, <<1, 0>>, <<1, 1>>, <<1, 2>>, <<1, 3>> }
PostPieces == { <<6>>, <<0, 7, 8, 9>>, <<5, 6, 1, 4>>, <<4, 8, 5, 7>> }

StringAt == 54

\* The words of a string of characters zs, the last with the top bit set.
RECURSIVE Pack(_)
Pack(zs) ==
  LET at(i) == IF i <= Len(zs) THEN zs[i] ELSE 5
      w == at(1) * 1024 + at(2) * 32 + at(3)
  IN IF Len(zs) <= 3 THEN U16BE(32768 + w)
     ELSE U16BE(w) \o Pack(SubSeq(zs, 4, Len(zs)))

TextStory(zs) ==
  LET header == [i \in 1..32 |-> CASE i = 1 -> 3
                                   [] i = 8 -> 50      \* initial PC
                                   [] i = 26 -> 32     \* abbreviation table
                                   [] OTHER -> 0]
      table == U16BE(20) \o U16BE(21) \o U16BE(22) \o U16BE(24)
      strings == Pack(<<25, 13, 10>>) \o Pack(<<6, 1, 0>>)
                   \o Pack(<<4, 25, 13, 10, 5, 8>>) \o Pack(<<1, 3>>)
      code == <<135>> \o U16BE(StringAt) \o <<178>> \o Pack(zs)
                \o <<141>> \o U16BE(StringAt \div 2)
      all == header \o table \o strings \o code
  IN [i \in 0..(Len(all) - 1) |-> all[i + 1]]

TextInit ==
  /\ rev \in {"jszm", "part"}
  /\ \E pre \in PrePieces, esc \in Escapes, post \in PostPieces :
       /\ memInit = TextStory(pre \o esc \o post)
       /\ snap = [pre |-> pre, esc |-> esc, post |-> post]
  /\ mem = init(0)
  /\ pc = getu(memInit, 6)
  /\ ds = <<>>
  /\ cs = <<>>
  /\ savedFlags = 0
  /\ status = "running"
  /\ saved = <<>>
  /\ shown = [fix |-> "none", since |-> {}]
  /\ last = [op |-> "none", addr |-> 0, text |-> <<>>, end |-> 0, ok |-> TRUE,
             deep |-> FALSE]
  /\ seed = NoSeed

\* addr(x): the byte address of a packed address.
addr(x) == (x % 65536) * 2

\* genPrint(this.getText(at)) in the instruction op of n bytes; PRINTI
\* (toEnd) leaves pc at this.endText.
Printed(op, n, at, toEnd) ==
  /\ status = "running"
  /\ InMem(mem, pc, n)
  /\ \E t \in {getText(mem, at, NestMax)}, g \in {genPrint(mem, savedFlags)} :
        /\ last' = [op |-> op, addr |-> at, text |-> t.out, end |-> t.end, ok |-> t.ok,
                    deep |-> t.deep]
        /\ status' = IF t.ok THEN "running" ELSE "error"
        /\ pc' = IF toEnd THEN t.end ELSE pc + n
        /\ savedFlags' = IF t.ok THEN g.savedFlags ELSE savedFlags
        /\ shown' = IF t.ok THEN Heard(shown, g.calls) ELSE shown
  /\ UNCHANGED <<seed, rev, memInit, mem, ds, cs, saved, snap>>

\* B2, the string after it.
PRINTI ==
  /\ InMem(mem, pc, 1) /\ mem[pc] = 178
  /\ Printed("PRINTI", 1, pc + 1, TRUE)

\* 87 hi lo: PRINTB of a large constant.
PRINTB ==
  /\ InMem(mem, pc, 3) /\ mem[pc] = 135
  /\ Printed("PRINTB", 3, get(mem, pc + 1) % 65536, FALSE)

\* 8D hi lo: PRINT of a large constant, a packed address.
PRINT ==
  /\ InMem(mem, pc, 3) /\ mem[pc] = 141
  /\ Printed("PRINT", 3, addr(get(mem, pc + 1)), FALSE)

TextNext == PRINTI \/ PRINTB \/ PRINT

SpecText == TextInit /\ [][TextNext]_vars

\* The text of a piece and of an abbreviation, by the Z-machine standard
\* (section 3): alphabet A0 from 6 on, 4 and 5 shift the next character to
\* A1 and A2, 6 in A2 starts a 10-bit character code.
Text(piece) ==
  CASE piece = <<>> -> <<>>
    [] piece = <<13, 14>> -> <<104, 105>>
    [] piece = <<13, 0, 5, 18>> -> <<104, 32, 46>>
    [] piece = <<6>> -> <<97>>
    [] piece = <<0, 7, 8, 9>> -> <<32, 98, 99, 100>>
    [] piece = <<5, 6, 1, 4>> -> <<36>>
    [] piece = <<4, 8, 5, 7>> -> <<67, 10>>

Expansion(esc) ==
  CASE esc = <<>> -> <<>>
    [] esc = <<1, 0>> -> <<116, 104, 101>>
    [] esc = <<1, 1>> -> <<97, 116, 104, 101>>
    [] esc = <<1, 2>> -> <<84, 104, 101, 48>>

\* The address after the first word from a on whose top bit is set.
FirstEnd(a) ==
  2 + CHOOSE e \in a..(Cardinality(DOMAIN memInit) - 2) :
        /\ (e - a) % 2 = 0
        /\ memInit[e] >= 128
        /\ \A d \in a..(e - 1) : (d - a) % 2 = 0 => memInit[d] < 128

\* C17: decoding a packed string leaves the end-of-text pointer at the byte
\* after the first word with the top bit set, whatever abbreviation strings
\* were decoded in between (PRINTI continues there), and the text is the
\* text before the abbreviation escape, the abbreviation's text, and the text
\* after the escape.
C17_DecodeText ==
  (last.op # "none" /\ snap.esc # <<1, 3>>) =>
     /\ last.ok
     /\ last.end = FirstEnd(last.addr)
     /\ last.text = Text(snap.pre) \o Expansion(snap.esc) \o Text(snap.post)
     /\ last.op = "PRINTI" => pc = last.end

\* PRINTI of "hi", abbreviation 1 (which holds abbreviation 0) and "C\n" in
\* part_000: "hiatheC\n", and pc after the three words of the string.
C17_Witness ==
  /\ rev = "part"
  /\ last.op = "PRINTI"
  /\ snap = [pre |-> <<13, 14>>, esc |-> <<1, 1>>, post |-> <<4, 8, 5, 7>>]
  /\ last.text = <<104, 105, 97, 116, 104, 101, 67, 10>>
  /\ pc = StringAt + 6

\* C34: decoding a string whose last word has the end bit ends within a
\* fixed number of activations of getText, also when an abbreviation holds
\* an abbreviation escape (of another abbreviation or of itself): it never
\* asks for more than NestMax activations.
C34_DecodingBounded == last.op # "none" => ~last.deep

(***************************************************************************)
(* The dictionary and the tokenizer.  Lines and tokens are sequences of    *)
(* character codes.  this.vocabulary is read from the story once, at the   *)
(* first init(): a Map from the text of each entry to its address, a later *)
(* entry replacing an earlier one of the same text.                        *)
(***************************************************************************)
MaxLine == 4

Whitespace == {32, 10, 9}

\* this.selfInsertingBreaks, as the set regBreak tests against (s is the
\* dictionary's address; 0 is no dictionary).
selfInsertingBreaks ==
  LET s == getu(memInit, 8)
  IN IF s = 0 THEN {} ELSE { memInit[s + i] : i \in 1..memInit[s] }

\* this.vocabulary.get(text): the address, or 0 for undefined.
\* The address of the i-th entry of the dictionary at s.
EntryAddress(s, i) == s + memInit[s] + 4 + i * memInit[s + memInit[s] + 1]

\* The entries whose text is text.
EntriesOf(s, text) ==
  { i \in 0..(get(memInit, s + memInit[s] + 2) - 1) :
      getText(memInit, EntryAddress(s, i), NestMax).out = text }

\* The last of the entries hits.
Latest(s, hits) ==
  IF hits = {} THEN 0 ELSE EntryAddress(s, CHOOSE i \in hits : \A j \in hits : j <= i)

vocabularyGet(text) ==
  IF getu(memInit, 8) = 0 THEN 0 ELSE Latest(getu(memInit, 8), EntriesOf(getu(memInit, 8), text))

\* str.toLowerCase() on the letters A-Z.
toLowerCase(str) == [i \in 1..Len(str) |-> IF str[i] \in 65..90 THEN str[i] + 32 ELSE str[i]]

\* The cost of a character in the fold w of src/jszm.js:
\* [a-z] 1, [0-9.,!?_#'"/\:-()] 2, any other 4.
cost_jszm(c) ==
  IF c \in 97..122 THEN 1
  ELSE IF c \in (48..57) \cup {46, 44, 33, 63, 95, 35, 39, 34, 47, 92, 58, 45, 40, 41} THEN 2
  ELSE 4

\* The cost in trimForVocabulary of src/unnamed/part_000: a character of
\* zsciiCharTable[0] 1, one of any table 2, any other 4.
cost_part(c) ==
  IF \E i \in 1..26 : Alphabet[i] = c THEN 1
  ELSE IF \E i \in 1..78 : Alphabet[i] = c THEN 2
  ELSE 4

\* A fold that charges every character 1.
cost_One(c) == 1

cost(c) == IF rev = "jszm" THEN cost_jszm(c) ELSE cost_part(c)

\* w(m) and trimForVocabulary(token): the characters up to the first one
\* with which the cost passes 6.
RECURSIVE trimForVocabulary(_, _)
trimForVocabulary(str, limit) ==
  IF str = <<>> \/ limit - cost(Head(str)) < 0 THEN <<>>
  ELSE <<Head(str)>> \o trimForVocabulary(Tail(str), limit - cost(Head(str)))

\* The matches of regBreak in str from index i on, in order and without
\* overlap: [m, o] is the match and its offset.  keep is whether the
\* characters not matched are kept (as str.replace keeps them).
RECURSIVE matchAll(_, _, _)
matchAll(str, i, keep) ==
  IF i > Len(str) THEN <<>>
  ELSE IF str[i] \in selfInsertingBreaks
    THEN << [k |-> "m", m |-> <<str[i]>>, o |-> i - 1] >> \o matchAll(str, i + 1, keep)
  ELSE IF str[i] \in Whitespace
    THEN (IF keep THEN << [k |-> "w", m |-> <<str[i]>>, o |-> i - 1] >> ELSE <<>>)
           \o matchAll(str, i + 1, keep)
  ELSE LET run == { j \in i..Len(str) :
                      \A h \in i..j : str[h] \notin selfInsertingBreaks \cup Whitespace }
           j == CHOOSE j \in run : \A h \in run : h <= j
       IN << [k |-> "m", m |-> SubSeq(str, i, j), o |-> i - 1] >> \o matchAll(str, j + 1, keep)

\* The record of a match: [length, address, position].
Record(t) == << Len(t.m), vocabularyGet(trimForVocabulary(t.m, 6)), t.o + 1 >>

\* str.replace(this.regBreak, ...) from the i-th match or kept character on:
\* a match becomes "," and its record, a character not matched stays.
RECURSIVE replaced(_, _)
replaced(rep, i) ==
  IF i > Len(rep) THEN <<>>
  ELSE (IF rep[i].k = "w" THEN << [k |-> "w"] >>
        ELSE << [k |-> ","], [k |-> "v", r |-> Record(rep[i])] >>) \o replaced(rep, i + 1)

\* src/jszm.js: every match is replaced by "," and its record, the first
\* character of the result is sliced off, and the rest is parsed as the
\* inside of a JSON array: [ok, br].  The characters left between records
\* are whitespace to JSON; the array is empty or records separated by commas.
slice1(text) == IF text = <<>> THEN <<>> ELSE Tail(text)

Records(vs) == [i \in 1..Len(vs) |-> vs[i].r]

\* JSON.parse of "[" + text + "]", t being text without its whitespace.
JSONparse(t) ==
  [ok |-> \/ t = <<>>
          \/ /\ Len(t) % 2 = 1
             /\ \A i \in 1..Len(t) : t[i].k = (IF i % 2 = 1 THEN "v" ELSE ","),
   br |-> Records(SelectSeq(t, LAMBDA x : x.k = "v"))]

parsed_jszm(str) ==
  JSONparse(SelectSeq(slice1(replaced(matchAll(str, 1, TRUE), 1)), LAMBDA x : x.k # "w"))

\* src/unnamed/part_000: [...str.matchAll(this.regBreak)].
RecordsOf(ts) == [i \in 1..Len(ts) |-> Record(ts[i])]

parsed_part(str) == [ok |-> TRUE, br |-> RecordsOf(matchAll(str, 1, FALSE))]

\* A parse that reports one token fewer.
parsed_DropsLast(str) ==
  [ok |-> TRUE, br |-> SubSeq(RecordsOf(matchAll(str, 1, FALSE)), 1, Len(matchAll(str, 1, FALSE)) - 1)]

parsed(str) == IF rev = "jszm" THEN parsed_jszm(str) ELSE parsed_part(str)

\* The bytes bs written from address a on.
RECURSIVE setBytes(_, _, _)
setBytes(m, a, bs) ==
  IF bs = <<>> THEN m ELSE setBytes([m EXCEPT ![a] = Head(bs)], a + 1, Tail(bs))

\* The records br written from index i on.
RECURSIVE putRecords(_, _, _, _)
putRecords(m, t2, br, i) ==
  IF i > Len(br) THEN m
  ELSE LET a == t2 + (i - 1) * 4 + 2
           m1 == putu(m, a, br[i][2])
       IN putRecords([m1 EXCEPT ![a + 2] = br[i][1] % 256, ![a + 3] = br[i][3] % 256],
                     t2, br, i + 1)

\* handleInput(str, t1, t2): [mem, thrown].
\* str.slice(0, n)
slice(str, n) == SubSeq(str, 1, IF n < Len(str) THEN n ELSE Len(str))

\* The memory m1 with the text put, after the records p are written.
Lexed(m1, p, t2) ==
  IF ~p.ok THEN [mem |-> m1, thrown |-> TRUE]
  ELSE [mem |-> putRecords([m1 EXCEPT ![t2 + 1] = Len(p.br) % 256], t2, p.br, 1),
        thrown |-> FALSE]

handleInput(m, line, t1, t2) ==
  Lexed(setBytes(m, t1 + 1, slice(toLowerCase(line), m[t1] - 1) \o <<0>>),
        parsed(slice(toLowerCase(line), m[t1] - 1)), t2)

(***************************************************************************)
(* SpecRead: READ over a story with a dictionary at 32: one break          *)
(* character ",", entries of 4 bytes, the words "a" (at 37), "aa" (at 41)  *)
(* and "," (at 45).  The text buffer t1 is at 49 and takes MaxLine         *)
(* characters, the parse buffer t2 follows it with room for MaxLine        *)
(* records (filled with 255 in the story), and the code follows that: one  *)
(* READ t1 t2.  The host answers read() with a line of at most MaxLine     *)
(* characters.  last is the line read.                                     *)
(***************************************************************************)
LineChars == {32, 44, 65, 97, 98}    \* space , A a b
Lines == UNION { [1..n -> LineChars] : n \in 0..MaxLine }

TextBuffer == 49
ParseBuffer == TextBuffer + MaxLine + 2
ReadAt == ParseBuffer + 2 + 4 * MaxLine

\* The 4 bytes of a dictionary key: six characters, padded with 5.
Key(zs) ==
  LET at(i) == IF i <= Len(zs) THEN zs[i] ELSE 5
  IN U16BE(at(1) * 1024 + at(2) * 32 + at(3)) \o U16BE(32768 + at(4) * 1024 + at(5) * 32 + at(6))

ReadStory ==
  LET header == [i \in 1..32 |-> CASE i = 1 -> 3
                                   [] i = 8 -> ReadAt   \* initial PC
                                   [] i = 10 -> 32      \* dictionary
                                   [] OTHER -> 0]
      dictionary == <<1, 44, 4>> \o U16BE(3) \o Key(<<6>>) \o Key(<<6, 6>>) \o Key(<<5, 19>>)
      t1 == <<MaxLine + 1>> \o [i \in 1..(MaxLine + 1) |-> 0]
      t2 == <<MaxLine>> \o [i \in 1..(1 + 4 * MaxLine) |-> 255]
      code == <<228, 95, TextBuffer, ParseBuffer>>
      all == header \o dictionary \o t1 \o t2 \o code
  IN [i \in 0..(Len(all) - 1) |-> all[i + 1]]

ReadInit ==
  /\ rev \in {"jszm", "part"}
  /\ memInit = ReadStory
  /\ mem = init(0)
  /\ pc = getu(memInit, 6)
  /\ ds = <<>>
  /\ cs = <<>>
  /\ savedFlags = 0
  /\ status = "running"
  /\ saved = <<>>
  /\ shown = [fix |-> "none", since |-> {}]
  /\ last = [op |-> "none", line |-> <<>>, t1 |-> 0, t2 |-> 0]
  /\ snap = [op |-> "none"]
  /\ seed = NoSeed

\* E4 5F t1 t2: READ with two small constants.  genPrint(""), no status
\* line (the host has no updateStatusLine), read(mem[t1]) answered with one
\* of lines, handleInput.
Reads(lines) ==
  /\ status = "running"
  /\ InMem(mem, pc, 4) /\ mem[pc] = 228 /\ mem[pc + 1] = 95
  /\ \E line \in lines :
       \E t1 \in {mem[pc + 2]}, t2 \in {mem[pc + 3]}, g \in {genPrint(mem, savedFlags)},
          h \in {handleInput(mem, line, mem[pc + 2], mem[pc + 3])} :
          /\ Len(line) < mem[t1]
          /\ mem' = h.mem
          /\ status' = IF h.thrown THEN "error" ELSE "running"
          /\ pc' = pc + 4
          /\ savedFlags' = g.savedFlags
          /\ shown' = Heard(shown, g.calls)
          /\ last' = [op |-> "READ", line |-> line, t1 |-> t1, t2 |-> t2]
  /\ UNCHANGED <<seed, rev, memInit, ds, cs, saved, snap>>

READ == Reads(Lines)

ReadNext == READ

SpecRead == ReadInit /\ [][ReadNext]_vars

\* The tokens of a line: <<i, n>> is a token of n characters from the i-th
\* on if it is one break character, or a run of characters that are neither
\* whitespace nor breaks which no such character precedes or follows.
Wordy(c) == c \notin Whitespace \cup {44}

Tokens(line) ==
  { t \in (1..Len(line)) \X (1..Len(line)) :
      LET i == t[1]
          j == t[1] + t[2] - 1
      IN /\ j <= Len(line)
         /\ \/ t[2] = 1 /\ line[i] = 44
            \/ /\ \A h \in i..j : Wordy(line[h])
               /\ i > 1 => ~Wordy(line[i - 1])
               /\ j < Len(line) => ~Wordy(line[j + 1]) }

\* The dictionary of the story: "a" at 37, "aa" at 41, "," at 45.
Entry(w) ==
  CASE w = <<97>> -> 37
    [] w = <<97, 97>> -> 41
    [] w = <<44>> -> 45
    [] OTHER -> 0

\* C18: after READ the parse buffer holds the number of tokens of the line
\* and, for the k-th token in source order, at t2+2+4k the address of its
\* dictionary entry or 0, its length and its 1-based offset; also for lines
\* that are empty or begin or end with whitespace.
C18_Tokenized ==
  last.op = "READ" =>
     /\ status = "running"
     /\ mem[last.t2 + 1] = Cardinality(Tokens(last.line))
     /\ \A t \in Tokens(last.line) :
          LET k == Cardinality({ u \in Tokens(last.line) : u[1] < t[1] })
              a == last.t2 + 2 + 4 * k
          IN /\ getu(mem, a) = Entry(toLowerCase(SubSeq(last.line, t[1], t[1] + t[2] - 1)))
             /\ mem[a + 2] = t[2]
             /\ mem[a + 3] = t[1]

\* C18 in src/unnamed/part_000, where it holds.
C18_TokenizedPart == rev = "part" => C18_Tokenized

\* The line "a, b" read in part_000: three tokens, "a" at 37, "," at 45 and
\* "b" unknown.
C18_Witness ==
  /\ rev = "part"
  /\ last.op = "READ"
  /\ last.line = <<97, 44, 32, 98>>
  /\ mem[last.t2 + 1] = 3
  /\ getu(mem, last.t2 + 2) = 37
  /\ getu(mem, last.t2 + 6) = 45
  /\ getu(mem, last.t2 + 10) = 0 /\ mem[last.t2 + 12] = 1 /\ mem[last.t2 + 13] = 4

(***************************************************************************)
(* SpecFold: READ of one word over a story whose dictionary has one entry, *)
(* drawn: six characters of plain letters, a padded word, digits by single *)
(* shifts, a character code, a capital, an abbreviation (the story's       *)
(* abbreviation 0 is "abcdefg") and digits under a doubled shift, which    *)
(* getText takes as a shift lock.  The abbreviation table is at 32, the    *)
(* dictionary at 40 with its entry at 45, the text buffer at 49 with room  *)
(* for MaxWord characters, the parse buffer after it, then the READ.       *)
(* snap is the entry drawn.                                                *)
(***************************************************************************)
MaxWord == 8

KeyEntries ==
  { <<6, 7, 8, 9, 10, 11>>, <<6, 7, 5, 5, 5, 5>>, <<5, 8, 5, 9, 5, 10>>, <<5, 6, 1, 10, 6, 7>>,
    <<4, 6, 7, 5, 5, 5>>, <<1, 0, 5, 5, 5, 5>>, <<5, 5, 8, 9, 10, 11>> }

\* Words typed: abcdef abcdefg ab abc 012 0123 *ab *ab$ *abcd
Typed ==
  { <<97, 98, 99, 100, 101, 102>>, <<97, 98, 99, 100, 101, 102, 103>>, <<97, 98>>,
    <<97, 98, 99>>, <<48, 49, 50>>, <<48, 49, 50, 51>>, <<42, 97, 98>>,
    <<42, 97, 98, 36>>, <<42, 97, 98, 99, 100>> }

EntryAt == 45
FoldBuffer == 49

FoldStory(zs) ==
  LET header == [i \in 1..32 |-> CASE i = 1 -> 3
                                   [] i = 8 -> FoldBuffer + MaxWord + 12   \* initial PC
                                   [] i = 10 -> 40      \* dictionary
                                   [] i = 26 -> 32      \* abbreviation table
                                   [] OTHER -> 0]
      abbreviations == U16BE(17) \o Pack(<<6, 7, 8, 9, 10, 11, 12>>)
      dictionary == <<1, 44, 4>> \o U16BE(1) \o Key(zs)
      t1 == <<MaxWord + 1>> \o [i \in 1..(MaxWord + 1) |-> 0]
      t2 == <<2>> \o [i \in 1..9 |-> 255]
      code == <<228, 95, FoldBuffer, FoldBuffer + MaxWord + 2>>
      all == header \o abbreviations \o dictionary \o t1 \o t2 \o code
  IN [i \in 0..(Len(all) - 1) |-> all[i + 1]]

FoldInit ==
  /\ rev \in {"jszm", "part"}
  /\ \E zs \in KeyEntries : memInit = FoldStory(zs) /\ snap = zs
  /\ mem = init(0)
  /\ pc = getu(memInit, 6)
  /\ ds = <<>>
  /\ cs = <<>>
  /\ savedFlags = 0
  /\ status = "running"
  /\ saved = <<>>
  /\ shown = [fix |-> "none", since |-> {}]
  /\ last = [op |-> "none", line |-> <<>>, t1 |-> 0, t2 |-> 0]
  /\ seed = NoSeed

FoldREAD == Reads(Typed)

FoldNext == FoldREAD

SpecFold == FoldInit /\ [][FoldNext]_vars

\* The text of the entries.  The last is the text getText gives: it takes
\* the doubled shift as a lock, so that four digits fit in six characters.
KeyText(zs) ==
  CASE zs = <<6, 7, 8, 9, 10, 11>> -> <<97, 98, 99, 100, 101, 102>>
    [] zs = <<6, 7, 5, 5, 5, 5>> -> <<97, 98>>
    [] zs = <<5, 8, 5, 9, 5, 10>> -> <<48, 49, 50>>
    [] zs = <<5, 6, 1, 10, 6, 7>> -> <<42, 97, 98>>
    [] zs = <<4, 6, 7, 5, 5, 5>> -> <<65, 98>>
    [] zs = <<1, 0, 5, 5, 5, 5>> -> <<97, 98, 99, 100, 101, 102, 103>>
    [] zs = <<5, 5, 8, 9, 10, 11>> -> <<48, 49, 50, 51>>

\* The budget a character takes: 1 in alphabet 0, 2 in the other alphabets
\* (capitals, "*", newline, digits, punctuation), 4 otherwise.
ZBudget(c) ==
  IF c \in 97..122 THEN 1
  ELSE IF c \in (65..90) \cup (48..57) \cup {42, 10, 46, 44, 33, 63, 95, 35, 39, 34, 47, 92, 45, 58, 40, 41}
    THEN 2
  ELSE 4

\* The budget the first n characters of t take.
RECURSIVE ZBudgetOf(_, _)
ZBudgetOf(t, n) == IF n = 0 THEN 0 ELSE ZBudget(t[n]) + ZBudgetOf(t, n - 1)

\* The longest prefix of t within the budget 6.
Prefix6(t) ==
  LET fit == { n \in 0..Len(t) : ZBudgetOf(t, n) <= 6 }
  IN SubSeq(t, 1, CHOOSE n \in fit : \A h \in fit : h <= n)

\* The word typed is found at the entry.
FoundAtEntry == status = "running" /\ mem[last.t2 + 1] = 1 /\ getu(mem, last.t2 + 2) = EntryAt

PlainEntry(zs) ==
  /\ \A i \in 1..Len(zs) : zs[i] \notin {1, 2, 3}
  /\ \A i \in 1..(Len(zs) - 2) : ~(zs[i] \in {4, 5} /\ zs[i + 1] = zs[i] /\ zs[i + 2] # 5)

DecodeCodeLen == 2

\* The opcodes that have a handler, by table.
Slots(table) ==
  CASE table = "0OP" -> 0..13
    [] table = "1OP" -> (0..15) \ {8}
    [] table = "2OP" -> 1..24
    [] table = "VAR" -> 0..11

\* splitBytes(b, 2, 2, 2, 2)
splitTypes(b) == << (b \div 64) % 4, (b \div 16) % 4, (b \div 4) % 4, b % 4 >>

\* A decoder that takes the table of the short form from the type bits.
decodeInstruction_ByType(M, i) ==
  LET M1 == [M EXCEPT !.pc = @ + 1]
      p == getParameterByType(M1, [type |-> (i.b \div 16) % 4, raw |-> i.raw[1]])
  IN [table |-> IF (i.b \div 16) % 4 = 3 THEN "0OP" ELSE "1OP",
      opcode |-> i.b % 16, rs |-> <<p.r>>, M |-> p.M]

\* decodeInstruction(): the table and the opcode of fun, the parameters, and
\* the machine after the bytes read.
decodeInstruction(M, i) ==
  LET M1 == [M EXCEPT !.pc = @ + 1]
  IN IF i.b >= 128
     THEN IF i.b >= 192
          THEN LET types == splitTypes(i.tb)
                   p == getParameters([M1 EXCEPT !.pc = @ + 1],
                                      [k \in 1..4 |-> [type |-> types[k], raw |-> i.raw[k]]])
               IN [table |-> IF (i.b \div 32) % 2 = 1 THEN "VAR" ELSE "2OP",
                   opcode |-> i.b % 32, rs |-> p.rs, M |-> p.M]
          ELSE LET p == getParameterByType(M1, [type |-> (i.b \div 16) % 4, raw |-> i.raw[1]])
               IN [table |-> IF ~p.r.def THEN "0OP" ELSE "1OP",
                   opcode |-> i.b % 16, rs |-> <<p.r>>, M |-> p.M]
     ELSE LET p == getParameters(M1, << [type |-> ((i.b \div 64) % 2) + 1, raw |-> i.raw[1]],
                                        [type |-> ((i.b \div 32) % 2) + 1, raw |-> i.raw[2]] >>)
          IN [table |-> "2OP", opcode |-> i.b % 32, rs |-> p.rs, M |-> p.M]

\* Opcode bytes: 2OP 0, 25 and 31 in the long form with every pair of operand
\* types; 1OP 8 with a large constant, a small constant and a variable; 0OP
\* 14 and 15; 2OP 0, 25, 31 and VAR 12, 31 in the variable form; NOOP, RSTACK.
OpBytes ==
  { t * 32 + op : t \in 0..3, op \in {0, 25, 31} }
    \cup {136, 152, 168, 190, 191} \cup {192, 217, 223, 236, 255} \cup {180, 184}

\* Types bytes: no operand; a variable; a small constant and a variable.
TypeBytes == {255, 191, 111}

\* Operands: variable 0 (or the constant 0), local 1, local 15.
Raws == { <<0, 0, 0, 0>>, <<1, 0, 0, 0>>, <<15, 1, 0, 0>> }

Instrs == { [b |-> b, tb |-> tb, raw |-> raw] : b \in OpBytes, tb \in TypeBytes, raw \in Raws }

DecodeInit ==
  /\ rev = "jszm"
  /\ memInit = VarStory
  /\ mem = init(0)
  /\ pc = getu(VarStory, 6)
  /\ ds \in {<<>>, <<5>>}
  /\ cs \in {<<>>, << VarFrame(MaxLocals) >>}
  /\ savedFlags = 0
  /\ status = "running"
  /\ saved = <<>>
  /\ shown = [fix |-> "none", since |-> {}]
  /\ last = [op |-> "none", i |-> [b |-> 0, tb |-> 0, raw |-> <<0, 0, 0, 0>>],
             fun |-> "none", error |-> "none"]
  /\ snap = [mem |-> <<>>, ds |-> <<>>, cs |-> <<>>]
  /\ seed = NoSeed

Dispatched(i, fun, error) ==
  /\ last' = [op |-> "dispatch", i |-> i, fun |-> fun, error |-> error]
  /\ snap' = [mem |-> mem, ds |-> ds, cs |-> cs]
  /\ UNCHANGED <<seed, rev, memInit, savedFlags, saved, shown>>

\* fun is undefined: throw new Error("JSZM: Invalid Z-machine opcode").
InvalidOpcode ==
  /\ InCode(1, DecodeCodeLen)
  /\ \E i \in Instrs :
       LET d == decodeInstruction(Cur, i)
       IN /\ ~d.M.thrown
          /\ d.opcode \notin Slots(d.table)
          /\ Ran(Throw(d.M))
          /\ Dispatched(i, "none", "Invalid Z-machine opcode")

\* An operand names a local and there is no frame: cs[0].local throws a
\* TypeError inside decodeInstruction.
OperandThrows ==
  /\ InCode(1, DecodeCodeLen)
  /\ \E i \in Instrs :
       LET d == decodeInstruction(Cur, i)
       IN /\ d.M.thrown
          /\ Ran(d.M)
          /\ Dispatched(i, "none", "TypeError")

\* NOOP: the handler does nothing.
NOOP ==
  /\ InCode(1, DecodeCodeLen)
  /\ \E i \in Instrs :
       LET d == decodeInstruction(Cur, i)
       IN /\ ~d.M.thrown
          /\ d.table = "0OP" /\ d.opcode = 4
          /\ Ran(d.M)
          /\ Dispatched(i, "NOOP", "none")

\* RSTACK: ret(ds[ds.length - 1]); the store byte of the call names a local
\* or a global, where undefined is stored as 0.
RSTACK ==
  /\ InCode(1, DecodeCodeLen)
  /\ \E i \in Instrs, sb \in {1, 16} :
       LET d == decodeInstruction(Cur, i)
           top == IF d.M.ds = <<>> THEN 0 ELSE d.M.ds[Len(d.M.ds)]
           R == ret(d.M, top, sb)
       IN /\ ~d.M.thrown
          /\ d.table = "0OP" /\ d.opcode = 8
          /\ Ran(R)
          /\ Dispatched(i, "RSTACK", IF R.thrown THEN "TypeError" ELSE "none")

DecodeNext == InvalidOpcode \/ OperandThrows \/ NOOP \/ RSTACK

SpecDecode == DecodeInit /\ [][DecodeNext]_vars

\* The table an opcode byte names by its form and operand type bits, and
\* its opcode number.
FormOf(b) ==
  IF b < 128 THEN "2OP"
  ELSE IF b < 176 THEN "1OP"
  ELSE IF b < 192 THEN "0OP"
  ELSE IF b < 224 THEN "2OP"
  ELSE "VAR"

NumberOf(b) == IF b \in 128..191 THEN b % 16 ELSE b % 32

\* The empty slots: 1OP 8, 0OP 14 and 15, 2OP 0 and 25..31, VAR 12..31.
EmptySlot(b) ==
  \/ FormOf(b) = "1OP" /\ NumberOf(b) = 8
  \/ FormOf(b) = "0OP" /\ NumberOf(b) \in {14, 15}
  \/ FormOf(b) = "2OP" /\ NumberOf(b) \in {0} \cup (25..31)
  \/ FormOf(b) = "VAR" /\ NumberOf(b) \in 12..31

\* C20: an instruction whose slot is empty leaves run() with an exception,
\* and no handler runs for it: the call stack and the memory are as before.
C20_EmptySlotRaises ==
  (last.op = "dispatch" /\ EmptySlot(last.i.b)) =>
     /\ status = "error"
     /\ last.fun = "none"
     /\ cs = snap.cs
     /\ mem = snap.mem

\* The operand of the short form is a variable without a value: variable 0
\* on an empty stack, or a local the frame does not have.
NoValue ==
  /\ last.i.b \in 160..175
  /\ \/ last.i.raw[1] = 0 /\ snap.ds = <<>>
     \/ last.i.raw[1] \in 1..15 /\ snap.cs # <<>> /\ last.i.raw[1] > Len(snap.cs[1].local)

\* The same for the instructions whose operand, if a variable, has a value.
C20_EmptySlotRaisesWithOperand ==
  (last.op = "dispatch" /\ ~NoValue) => C20_EmptySlotRaises

\* 1OP 8 on variable 0 with an empty data stack inside a routine: RSTACK ran
\* and the routine returned.
C20_ReturnedInstead ==
  /\ last.op = "dispatch"
  /\ last.i.b = 168 /\ last.i.raw[1] = 0
  /\ snap.ds = <<>> /\ snap.cs # <<>>
  /\ last.fun = "RSTACK"
  /\ status = "running" /\ cs = <<>>

(***************************************************************************)
(* SpecYield: the driver run() as a coroutine.  Every yield* of a host     *)
(* method is a point where run() is suspended: status is "calling", and    *)
(* snap is its suspended activation: the opcode, the callout outstanding   *)
(* (out), the callouts the handler makes after it before it looks at an    *)
(* answer (todo), and what the handler evaluated before the callout (arg). *)
(* The host ends a callout by returning (with an answer where the handler  *)
(* reads one) or by throwing.  The handlers that are not generator         *)
(* functions are the actions of Spec, run in one step by fun(...).         *)
(***************************************************************************)
Idle == [op |-> "none", out |-> <<>>, todo |-> <<>>, arg |-> <<>>]

\* A handler that makes all its callouts at once.
Suspend_AllAtOnce(op, calls, arg) ==
  /\ snap' = [op |-> op, out |-> calls, todo |-> <<>>, arg |-> arg]
  /\ last' = [op |-> op, pred |-> "none", why |-> "none", calls |-> calls]
  /\ shown' = Heard(shown, calls)
  /\ status' = "calling"

\* yield* this.f(...): run() is suspended in the first callout of calls.
Suspend(op, calls, arg) ==
  /\ snap' = [op |-> op, out |-> <<Head(calls)>>, todo |-> Tail(calls), arg |-> arg]
  /\ last' = [op |-> op, pred |-> "none", why |-> "none", calls |-> <<Head(calls)>>]
  /\ shown' = Heard(shown, <<Head(calls)>>)
  /\ status' = "calling"

\* A restart that keeps the stacks.
Fresh_KeepsStacks(sf) ==
  [mem |-> init(sf), pc |-> getu(init(sf), 6), ds |-> ds, cs |-> cs, thrown |-> FALSE]

\* The machine init() leaves.
Fresh(sf) ==
  [mem |-> init(sf), pc |-> getu(init(sf), 6), ds |-> <<>>, cs |-> <<>>, thrown |-> FALSE]

Reinit(M) ==
  /\ mem' = M.mem
  /\ pc' = M.pc
  /\ ds' = M.ds
  /\ cs' = M.cs
  /\ seed' \in SeedDraws

YieldInit ==
  /\ rev \in {"jszm", "part"}
  /\ memInit = Story(0)
  /\ mem = <<>>
  /\ pc = 0
  /\ ds = <<>>
  /\ cs = <<>>
  /\ savedFlags = 0
  /\ status = "constructed"
  /\ saved = <<>>
  /\ last = [op |-> "none", pred |-> "none", why |-> "none", calls |-> <<>>]
  /\ snap = Idle
  /\ seed = NoSeed
  /\ shown = [fix |-> "none", since |-> {}]

\* run() up to its first yield*: init(), then restarted(); highlight() is
\* the statement after it.
YieldBoot ==
  /\ status = "constructed"
  /\ snap = Idle
  /\ Reinit(Fresh(savedFlags))
  /\ Suspend("boot", << [k |-> "restarted"], [k |-> "highlight", fix |-> Bit(savedFlags, 1)] >>, <<>>)
  /\ UNCHANGED <<rev, memInit, savedFlags, saved>>

YieldRESTART ==
  /\ Fits(1)
  /\ Reinit(Fresh(savedFlags))
  /\ Suspend("RESTART", << [k |-> "restarted"] >>, <<>>)
  /\ UNCHANGED <<rev, memInit, savedFlags, saved>>

YieldCRLF ==
  /\ Fits(1)
  /\ \E g \in {genPrint(mem, savedFlags)} :
       /\ savedFlags' = g.savedFlags
       /\ Suspend("CRLF", g.calls, <<>>)
  /\ pc' = pc + 1
  /\ UNCHANGED <<seed, rev, memInit, mem, ds, cs, saved>>

\* SAVE up to its yield*: serialize() is the argument of the callout; it
\* throws on a frame without ds and pc, and then no callout is made.
YieldSAVE ==
  /\ Fits(2)
  /\ pc < CodeLo + Sites
  /\ savedFlags' = get(mem, 16)
  /\ IF \E i \in 1..Len(cs) : ~cs[i].named
     THEN /\ Install(Throw(After(1)))
          /\ Did("SAVE", "none", "none", <<>>)
          /\ UNCHANGED snap
     ELSE /\ pc' = pc + 1
          /\ Suspend("SAVE", << [k |-> "save"] >>, serialize(mem, ds, cs, pc + 1))
          /\ UNCHANGED <<mem, ds, cs>>
  /\ UNCHANGED <<seed, rev, memInit, saved>>

YieldRESTORE ==
  /\ Fits(2)
  /\ savedFlags' = get(mem, 16)
  /\ pc' = pc + 1
  /\ Suspend("RESTORE", << [k |-> "restore"] >>, <<>>)
  /\ UNCHANGED <<seed, rev, memInit, mem, ds, cs, saved>>

\* The callout outstanding returns and the handler goes on to its next
\* yield*.
Resumed ==
  /\ status = "calling"
  /\ snap.todo # <<>>
  /\ snap' = [snap EXCEPT !.out = <<Head(snap.todo)>>, !.todo = Tail(snap.todo)]
  /\ last' = [last EXCEPT !.calls = Append(@, Head(snap.todo))]
  /\ shown' = Heard(shown, <<Head(snap.todo)>>)
  /\ UNCHANGED <<seed, rev, memInit, mem, pc, ds, cs, savedFlags, status, saved>>

\* The last callout of boot, RESTART or CRLF returns: the handler ends and
\* the main loop decodes the next instruction.
Completed ==
  /\ status = "calling"
  /\ snap.todo = <<>>
  /\ snap.op \in {"boot", "RESTART", "CRLF"}
  /\ status' = "running"
  /\ snap' = Idle
  /\ UNCHANGED <<seed, rev, memInit, mem, pc, ds, cs, savedFlags, saved, shown, last>>

\* save() returns r: predicate(r).
SaveReturned ==
  /\ status = "calling"
  /\ snap.op = "SAVE"
  /\ \E r \in BOOLEAN, b1 \in BranchBytes, sb \in StoreBytes :
       /\ saved' = IF r THEN snap.arg ELSE saved
       /\ Install(predicate(Cur, r, b1, 2, sb))
       /\ last' = [last EXCEPT !.pred = Truth(r)]
  /\ snap' = Idle
  /\ UNCHANGED <<seed, rev, memInit, savedFlags, shown>>

\* restore() returns h.ar (or nothing): the rest of the RESTORE handler.
RestoreReturned ==
  /\ status = "calling"
  /\ snap.op = "RESTORE"
  /\ \E h \in RestoreAnswers, b1 \in BranchBytes, sb \in StoreBytes :
       \E z \in {IF h.why = "none" THEN [ok |-> FALSE, mem |-> mem] ELSE deserialize(mem, h.ar)} :
         \E M1 \in {IF z.ok THEN RestoreInstall([Cur EXCEPT !.mem = RestoreMem(z, savedFlags)], z)
                    ELSE [Cur EXCEPT !.mem = RestoreMem(z, savedFlags)]} :
           /\ Install(IF M1.thrown THEN M1 ELSE predicate(M1, z.ok, b1, 2, sb))
           /\ last' = [last EXCEPT !.pred = IF M1.thrown THEN "none" ELSE Truth(z.ok),
                                   !.why = h.why]
  /\ snap' = Idle
  /\ UNCHANGED <<seed, rev, memInit, savedFlags, saved, shown>>

\* The callout outstanding throws: the exception leaves the handler and
\* run().
Raised ==
  /\ status = "calling"
  /\ status' = "error"
  /\ snap' = Idle
  /\ UNCHANGED <<seed, rev, memInit, mem, pc, ds, cs, savedFlags, saved, shown, last>>

YieldNext ==
  \/ YieldBoot \/ YieldRESTART \/ YieldCRLF \/ YieldSAVE \/ YieldRESTORE
  \/ Resumed \/ Completed \/ SaveReturned \/ RestoreReturned \/ Raised
  \/ PUSH \/ FSTACK \/ PUT \/ QUIT \/ CALL \/ RTRUE \/ Invalid

SpecYield == YieldInit /\ [][YieldNext]_vars

Outstanding(k) == snap.out # <<>> /\ snap.out[1].k = k

Machine == <<mem, pc, ds, cs>>

\* C21: at boot and at every RESTART the restarted callout is made in the
\* step that reinitializes the machine (memory as init() leaves it, both
\* stacks empty, pc at the start address); while it is outstanding the
\* machine does not move and no instruction runs; at boot its return makes
\* the one highlight callout, whose return lets the main loop start.
C21_RestartedAfterInit ==
  /\ [](Outstanding("restarted") =>
          /\ snap.op \in {"boot", "RESTART"}
          /\ mem = init(savedFlags) /\ pc = getu(mem, 6)
          /\ ds = <<>> /\ cs = <<>>)
  /\ [][(status # "calling" /\ last'.op \in {"boot", "RESTART"})
          => (Outstanding("restarted")' /\ status' = "calling")]_vars
  /\ [][Outstanding("restarted") =>
          /\ Machine' = Machine
          /\ status' # "error" =>
               IF snap.op = "boot"
               THEN status' = "calling" /\ Outstanding("highlight")' /\ snap'.todo = <<>>
               ELSE status' = "running" /\ snap'.out = <<>>]_vars
  /\ [][(snap.op = "boot" /\ Outstanding("highlight")) =>
          /\ Machine' = Machine
          /\ snap'.out = <<>>
          /\ status' # "error" => (status' = "running" /\ last'.calls = last.calls)]_vars

\* C21: a RESTART whose callout has returned, after a game was saved.
C21_Witness ==
  /\ status = "running"
  /\ last.op = "RESTART"
  /\ last.calls = << [k |-> "restarted"] >>
  /\ saved # <<>>
  /\ pc = CodeLo

\* The handlers that are generator functions.
Suspending ==
  {"PRINTI", "PRINTR", "PRINTB", "PRINTD", "PRINT", "PRINTC", "PRINTN", "CRLF",
   "READ", "SAVE", "RESTORE", "USL", "SPLIT", "SCREEN", "RESTART"}

\* C22: a callout is made or outstanding only at boot or inside a
\* suspending opcode; any other opcode runs in one step without one; at
\* most one callout is outstanding; while one is outstanding run() is
\* suspended in the same handler: the step that follows ends that callout,
\* and if it makes the handler's next callout the machine has not moved.
C22_CalloutsOnlyWhileSuspended ==
  /\ [](Len(snap.out) <= 1)
  /\ [](snap.out # <<>> <=> status = "calling")
  /\ []((last.calls # <<>> \/ snap.out # <<>>) =>
          (last.op \in Suspending \cup {"boot"} /\ snap.op \in {last.op, "none"}))
  /\ [][snap.out # <<>> =>
          /\ last'.op = last.op
          /\ snap'.op \in {snap.op, "none"}
          /\ snap'.out # <<>> => (Machine' = Machine /\ snap'.out # snap.out)]_vars
  /\ [][(snap.out = <<>> /\ last'.op \notin Suspending \cup {"boot"}) =>
          (shown' = shown /\ snap'.out = <<>> /\ last'.calls = <<>> /\ status' # "calling")]_vars

\* C22: CRLF after the flags word changed and a value was pushed: its
\* highlight callout has returned and its print callout is outstanding.
C22_Witness ==
  /\ status = "calling"
  /\ snap.op = "CRLF"
  /\ Outstanding("print")
  /\ Len(last.calls) = 2
  /\ ds # <<>>

(***************************************************************************)
(* SpecFlags: init() under every host.  snap is the host: whether isTandy  *)
(* is set and which of updateStatusLine, screen and split are installed.   *)
(* The story's flags byte is drawn; the story overwrites byte 1 of memory  *)
(* with PUTB and restarts.                                                 *)
(***************************************************************************)
FlagBytes == {0, 1, 2, 3, 4, 64, 128, 252, 255}

Hosts == [isTandy : BOOLEAN, updateStatusLine : BOOLEAN, screen : BOOLEAN, split : BOOLEAN]

FlagsInit ==
  /\ rev \in {"jszm", "part"}
  /\ memInit \in {Story(f1) : f1 \in FlagBytes}
  /\ mem = <<>>
  /\ pc = 0
  /\ ds = <<>>
  /\ cs = <<>>
  /\ savedFlags = 0
  /\ status = "constructed"
  /\ saved = <<>>
  /\ last = [op |-> "none", pred |-> "none", why |-> "none", calls |-> <<>>]
  /\ snap \in Hosts
  /\ seed = NoSeed
  /\ shown = [fix |-> "none", since |-> {}]

FlagsBoot ==
  /\ status = "constructed"
  /\ mem' = initHost(snap, savedFlags)
  /\ pc' = getu(initHost(snap, savedFlags), 6)
  /\ ds' = <<>>
  /\ cs' = <<>>
  /\ status' = "running"
  /\ Did("boot", "none", "none",
         << [k |-> "restarted"], [k |-> "highlight", fix |-> Bit(savedFlags, 1)] >>)
  /\ seed' \in SeedDraws
  /\ UNCHANGED <<rev, memInit, savedFlags, saved, snap>>

\* PUTB 0 1 v with three small constants (E2 57 00 01 v).
FlagsPUTB ==
  /\ Fits(5)
  /\ \E v \in {0, 255} : Install([After(5) EXCEPT !.mem = [@ EXCEPT ![1] = v]])
  /\ Did("PUTB", "none", "none", <<>>)
  /\ UNCHANGED <<seed, rev, memInit, savedFlags, saved, snap>>

FlagsRESTART ==
  /\ Fits(1)
  /\ mem' = initHost(snap, savedFlags)
  /\ pc' = getu(initHost(snap, savedFlags), 6)
  /\ ds' = <<>>
  /\ cs' = <<>>
  /\ status' = "running"
  /\ Did("RESTART", "none", "none", << [k |-> "restarted"] >>)
  /\ seed' \in SeedDraws
  /\ UNCHANGED <<rev, memInit, savedFlags, saved, snap>>

FlagsNext == FlagsBoot \/ FlagsPUTB \/ FlagsRESTART

SpecFlags == FlagsInit /\ [][FlagsNext]_vars

\* C23: after init(), at boot or by RESTART, byte 1 of the working memory
\* has bits 0 and 1 of the story file's byte 1, bit 3 iff isTandy, bit 4
\* iff no updateStatusLine is installed, bit 5 iff screen and split both
\* are, and bits 2, 6 and 7 clear.
C23_ModeByte ==
  last.op \in {"boot", "RESTART"} =>
    /\ Bit(mem[1], 0) = Bit(memInit[1], 0)
    /\ Bit(mem[1], 1) = Bit(memInit[1], 1)
    /\ Bit(mem[1], 3) = snap.isTandy
    /\ Bit(mem[1], 4) = ~snap.updateStatusLine
    /\ Bit(mem[1], 5) = (snap.screen /\ snap.split)
    /\ ~Bit(mem[1], 2) /\ ~Bit(mem[1], 6) /\ ~Bit(mem[1], 7)

\* C23: a RESTART of a story whose flags byte has every bit set, under a
\* Tandy host with a status line and screen but no split.
C23_Witness ==
  /\ last.op = "RESTART"
  /\ memInit[1] = 255
  /\ snap = [isTandy |-> TRUE, updateStatusLine |-> TRUE, screen |-> TRUE, split |-> FALSE]
  /\ mem[1] = 11

Int16 == -32768..32767

\* C24: every value on the data stack and on the data stack kept in every
\* call frame is a signed 16-bit integer.
C24_StacksHoldInt16 ==
  /\ \A i \in 1..Len(ds) : ds[i] \in Int16
  /\ \A f \in 1..Len(cs) : \A i \in 1..Len(cs[f].ds) : cs[f].ds[i] \in Int16

(***************************************************************************)
(* SpecBranch: branches.  The story of SpecVar calls its routine (at 520,  *)
(* one local, body at 523) from the initial PC; ZERO? and LESS? are run at *)
(* the top level and in the routine, before and after a PUSH, with every   *)
(* first byte of a branch specifier.  last holds the predicate, the two    *)
(* specifier bytes, the store byte of the call site and the address of     *)
(* the specifier; snap is the machine before the instruction.              *)
(***************************************************************************)
BranchSecond == {0, 1, 2, 255}
BranchStores == {0, 16}
RoutineAt == 520 \div 2                  \* packed address of the routine
BodyAt == 520 + 1 + 2 * VarStory[520]    \* its first instruction

Branched(op, p, b1, b2, sb, at) ==
  /\ last' = [op |-> op, p |-> p, b1 |-> b1, b2 |-> b2, sb |-> sb, at |-> at]
  /\ snap' = Cur
  /\ UNCHANGED <<seed, rev, memInit, savedFlags, saved, shown>>

BranchInit ==
  /\ rev \in {"jszm", "part"}
  /\ memInit = VarStory
  /\ mem = init(0)
  /\ pc = getu(VarStory, 6)
  /\ ds \in {<<>>, <<5>>}
  /\ cs = <<>>
  /\ savedFlags = 0
  /\ status = "running"
  /\ saved = <<>>
  /\ shown = [fix |-> "none", since |-> {}]
  /\ last = [op |-> "none", p |-> FALSE, b1 |-> 0, b2 |-> 0, sb |-> 0, at |-> 0]
  /\ snap = [mem |-> <<>>, pc |-> 0, ds |-> <<>>, cs |-> <<>>, thrown |-> FALSE]
  /\ seed = NoSeed

\* Where the story has its branch instructions; a run executes one.
BranchSite ==
  /\ status = "running"
  /\ pc \in {getu(VarStory, 6), BodyAt, BodyAt + 3}
  /\ last.op \notin {"ZERO?", "LESS?"}

\* CALL of the routine, a large constant (E0 3F 01 04); its store byte
\* follows.
BranchCALL ==
  /\ status = "running"
  /\ pc = getu(VarStory, 6)
  /\ cs = <<>>
  /\ Ran(call(After(4), RoutineAt, <<>>, 0))
  /\ Branched("CALL", FALSE, 0, 0, 0, 0)

\* PUSH 1 in the routine (E8 7F 01).
BranchPUSH ==
  /\ status = "running"
  /\ pc = BodyAt
  /\ Ran([After(3) EXCEPT !.ds = Append(@, 1)])
  /\ Branched("PUSH", FALSE, 0, 0, 0, 0)

\* The specifiers of the story: every first byte, with each of the second
\* bytes where the form is long; the store byte of the call site matters
\* where the offset is 0 or 1.
Specifiers ==
  { <<b1, b2, sb>> \in (0..255) \X BranchSecond \X BranchStores :
      /\ Bit(b1, 6) => b2 = 0
      /\ sb # 0 => (IF Bit(b1, 6) THEN b1 % 64 < 2 ELSE (b1 % 64) * 256 + b2 < 2) }

\* ZERO? a with a small constant (90 a): predicate(!a).
ZERO ==
  /\ BranchSite
  /\ \E a \in {0, 5}, b \in Specifiers :
       /\ Ran(predicate(After(2), a = 0, b[1], b[2], b[3]))
       /\ Branched("ZERO?", a = 0, b[1], b[2], b[3], pc + 2)

\* LESS? a b with two small constants (02 a 03): predicate(a < b).
LESS ==
  /\ BranchSite
  /\ \E a \in {0, 5}, b \in Specifiers :
       /\ Ran(predicate(After(3), a < 3, b[1], b[2], b[3]))
       /\ Branched("LESS?", a < 3, b[1], b[2], b[3], pc + 3)

BranchNext == BranchCALL \/ BranchPUSH \/ ZERO \/ LESS

SpecBranch == BranchInit /\ [][BranchNext]_vars

\* The last instruction had a branch specifier.
Branching == last.op \in {"ZERO?", "LESS?"}

\* The length of the specifier, the address after it, and the offset it
\* holds.
SpecifierLen == IF Bit(last.b1, 6) THEN 1 ELSE 2
PastSpecifier == last.at + SpecifierLen
Offset14 == (last.b1 % 64) * 256 + last.b2
BranchOffset ==
  IF Bit(last.b1, 6) THEN last.b1 % 64
  ELSE IF Offset14 >= 8192 THEN Offset14 - 16384 ELSE Offset14

\* The branch is to be taken: predicate true with bit 7 set, or false with
\* bit 7 clear.
Taken == last.p = Bit(last.b1, 7)

\* The offset returns instead of jumping.
Returns == IF Bit(last.b1, 6) THEN last.b1 % 64 \in {0, 1} ELSE Offset14 \in {0, 1}

\* C25: the branch (a jump by the offset, or the return of the routine) is
\* performed exactly when the predicate is true with bit 7 of the specifier
\* set or false with bit 7 clear; otherwise execution continues after the
\* specifier, of one byte if bit 6 is set and of two if not, both stacks
\* and the memory as they were.
C25_BranchPolarity ==
  Branching =>
    IF Taken
    THEN IF Returns THEN (status = "error" \/ Len(cs) = Len(snap.cs) - 1)
         ELSE pc = PastSpecifier + BranchOffset - 2
    ELSE /\ pc = PastSpecifier
         /\ status = "running"
         /\ ds = snap.ds /\ cs = snap.cs /\ mem = snap.mem

\* C25: ZERO? of a non-zero value with the specifier 1F 02 (on false, long
\* form, offset 7938): taken.
C25_Witness ==
  /\ last.op = "ZERO?" /\ ~last.p
  /\ last.b1 = 31 /\ last.b2 = 2
  /\ pc = last.at + 2 + 7938 - 2

\* The value the store byte sb names on the machine at hand.
BranchDelivered == xfetch(Cur, last.sb).r.v

\* C26: a taken branch with offset 0 or 1 inside a routine returns that
\* value: the frame is popped, the data stack and the PC are those of the
\* caller (past the store byte of its CALL), and the value is in the
\* variable that store byte names.
C26_ReturnsZeroOrOne ==
  (Branching /\ Taken /\ Returns /\ snap.cs # <<>>) =>
     /\ status = "running"
     /\ cs = Tail(snap.cs)
     /\ pc = getu(VarStory, 6) + 4 + 1
     /\ ds = (IF last.sb = 0 THEN Append(snap.cs[1].ds, BranchOffset) ELSE snap.cs[1].ds)
     /\ BranchDelivered = BranchOffset

\* The same in src/jszm.js alone.
C26_ReturnsZeroOrOneNamed ==
  rev = "jszm" => C26_ReturnsZeroOrOne

\* src/unnamed/part_000: the routine returned by a branch, and neither the
\* data stack nor the PC of the caller came back.
C26_CallerLost ==
  /\ rev = "part"
  /\ Branching /\ Taken /\ Returns
  /\ snap.cs # <<>> /\ snap.cs[1].ds = <<5>>
  /\ cs = <<>>
  /\ ds = <<>>
  /\ pc = -1

\* C27: a taken branch with an offset other than 0 and 1 leaves the PC at
\* the address past the specifier plus the offset minus 2; the offset is
\* the low 6 bits of the specifier in the short form, and in the long form
\* the 14-bit value, less 16384 when its bit 13 is set.  Nothing else
\* moves.
C27_BranchTarget ==
  (Branching /\ Taken /\ ~Returns) =>
     /\ pc = PastSpecifier + BranchOffset - 2
     /\ status = "running"
     /\ ds = snap.ds /\ cs = snap.cs /\ mem = snap.mem

\* C27: the specifier A0 01 (on true, long form, 0x2001) after ZERO? 0 in
\* the routine: the PC is 0x1FFF + 2 before the address past it.
C27_Witness ==
  /\ last.op = "ZERO?" /\ last.p
  /\ last.b1 = 160 /\ last.b2 = 1
  /\ snap.cs # <<>>
  /\ pc = PastSpecifier - 8191 - 2

(***************************************************************************)
(* SpecSelect: decodeInstruction() on every opcode byte.  The instruction  *)
(* is drawn: its first byte, its types byte (read in the variable form)    *)
(* and the raw operands; the machine is drawn with an empty and a          *)
(* non-empty data stack, with and without a frame.  last is the            *)
(* instruction and what the decoder returned: the table and the entry of   *)
(* fun, and the parameters; snap is the machine before.                    *)
(***************************************************************************)
SelectTypes == {255, 191, 111, 27, 0}

SelectInstrs ==
  { [b |-> b, tb |-> tb, raw |-> raw] :
      b \in 0..255, tb \in SelectTypes, raw \in Raws \cup { <<16, 255, 2, 3>> } }

SelectInit ==
  /\ rev \in {"jszm", "part"}
  /\ memInit = VarStory
  /\ mem = init(0)
  /\ pc = getu(VarStory, 6)
  /\ ds \in {<<>>, <<5>>, <<5, -6>>}
  /\ cs \in {<<>>, << VarFrame(MaxLocals) >>}
  /\ savedFlags = 0
  /\ status = "running"
  /\ saved = <<>>
  /\ shown = [fix |-> "none", since |-> {}]
  /\ last = [op |-> "none", i |-> [b |-> 0, tb |-> 0, raw |-> <<0, 0, 0, 0>>],
             table |-> "none", opcode |-> 0, rs |-> <<>>]
  /\ snap = [mem |-> <<>>, ds |-> <<>>, cs |-> <<>>]
  /\ seed = NoSeed

\* const {fun, parameters} = decodeInstruction(): the first instruction of
\* the run.
Decode ==
  /\ status = "running"
  /\ last.op = "none"
  /\ \E i \in SelectInstrs :
       \E d \in {decodeInstruction(Cur, i)} :
         /\ Ran(d.M)
         /\ last' = [op |-> "decode", i |-> i, table |-> d.table, opcode |-> d.opcode,
                     rs |-> d.rs]
  /\ snap' = [mem |-> mem, ds |-> ds, cs |-> cs]
  /\ UNCHANGED <<seed, rev, memInit, savedFlags, saved, shown>>

SelectNext == Decode

SpecSelect == SelectInit /\ [][SelectNext]_vars

\* The operand types the opcode byte (and the types byte) name: in the long
\* form a variable for a set bit and a byte constant for a clear one; in
\* the short form bits 5..4; in the variable form the four types, most
\* significant first.
TypesOf(i) ==
  IF i.b < 128 THEN << IF Bit(i.b, 6) THEN 2 ELSE 1, IF Bit(i.b, 5) THEN 2 ELSE 1 >>
  ELSE IF i.b < 192 THEN << (i.b \div 16) % 4 >>
  ELSE << i.tb \div 64, (i.tb \div 16) % 4, (i.tb \div 4) % 4, i.tb % 4 >>

\* The operands of those types read in order from the machine before, the
\* first after the opcode byte (and the types byte).
OperandsOf(i) ==
  getParameters([pc |-> 0, mem |-> snap.mem, ds |-> snap.ds, cs |-> snap.cs, thrown |-> FALSE],
                [k \in 1..Len(TypesOf(i)) |-> [type |-> TypesOf(i)[k], raw |-> i.raw[k]]])

\* C28: for every opcode byte the decoder selects the table and the entry
\* its form names (2OP b & 31 below 0x80; 1OP b & 15 for the types 0, 1, 2
\* and 0OP b & 15 for type 3 from 0x80 to 0xBF; 2OP or VAR b & 31 by bit 5
\* from 0xC0), with the operands of the types the bits name.
C28_DecoderSelects ==
  (last.op = "decode" /\ status = "running") =>
     /\ last.table = FormOf(last.i.b)
     /\ last.opcode = NumberOf(last.i.b)
     /\ last.rs = OperandsOf(last.i).rs
     /\ ds = OperandsOf(last.i).M.ds

\* The same for the instructions whose operand, if a variable of the short
\* form, has a value.
C28_DecoderSelectsWithValue ==
  ~NoValue => C28_DecoderSelects

\* ZERO? of variable 0 (A0 00) on an empty data stack: the decoder returned
\* entry 0 of the 0OP table, RTRUE.
C28_ZeroOpInstead ==
  /\ last.op = "decode"
  /\ last.i.b = 160 /\ last.i.raw[1] = 0
  /\ snap.ds = <<>>
  /\ last.table = "0OP" /\ last.opcode = 0

(***************************************************************************)
(* SpecCall: CALL and the ways a routine returns.  The story has a routine *)
(* of L locals for each L of RoutineLocals, the default of local i being   *)
(* the word 0x8000 + i.  CALL is run at the top level with no argument to  *)
(* three; in the routine PUSH, RETURN, RTRUE, RFALSE, RSTACK and ZERO?     *)
(* with a specifier of offset 0 or 1.  snap is the call site: the machine  *)
(* after the operands of the CALL were fetched, the routine, the arguments *)
(* and the store byte that follows them.                                   *)
(***************************************************************************)
RoutineLocals == {0, 1, 2, 3, 4, 15}
CallCodeLen == 12

RoutineBase(L) == 544 + 32 * (IF L = 15 THEN 5 ELSE L)

CallStory ==
  [i \in 0..735 |->
     CASE i = 0 -> 3
       [] i = 6 -> 2        \* initial PC 512
       [] i = 13 -> 32      \* globals base: variable 16 at 32
       [] i = 14 -> 2       \* PURBOT 512
       [] i >= 544 ->
            LET L == IF (i - 544) \div 32 = 5 THEN 15 ELSE (i - 544) \div 32
                o == (i - 544) % 32
            IN IF L \notin RoutineLocals THEN 0
               ELSE IF o = 0 THEN L
               ELSE IF o > 2 * L THEN 0
               ELSE IF o % 2 = 1 THEN 128 ELSE o \div 2
       [] OTHER -> 0]

\* The operands after the routine: none; a byte, a word or the stack top;
\* two; three, of constants or with two from the stack.
CallArgs ==
  { <<>>,
    << [type |-> 1, raw |-> 7] >>,
    << [type |-> 0, raw |-> 65534] >>,
    << [type |-> 2, raw |-> 0] >>,
    << [type |-> 1, raw |-> 7], [type |-> 2, raw |-> 0] >>,
    << [type |-> 1, raw |-> 7], [type |-> 0, raw |-> 32769], [type |-> 1, raw |-> 255] >>,
    << [type |-> 2, raw |-> 0], [type |-> 2, raw |-> 0], [type |-> 1, raw |-> 1] >> }

CallStores == {0, 16, 255}

NoSite == [M |-> [mem |-> <<>>, pc |-> 0, ds |-> <<>>, cs |-> <<>>, thrown |-> FALSE],
           L |-> 0, rs |-> <<>>, sb |-> 0]

Stepped(op, v) ==
  /\ last' = [op |-> op, v |-> v]
  /\ UNCHANGED <<seed, rev, memInit, savedFlags, saved, shown>>

CallInit ==
  /\ rev \in {"jszm", "part"}
  /\ memInit = CallStory
  /\ mem = init(0)
  /\ pc = getu(CallStory, 6)
  /\ ds \in {<<>>, <<5>>, <<5, -6>>}
  /\ cs = <<>>
  /\ savedFlags = 0
  /\ status = "running"
  /\ saved = <<>>
  /\ shown = [fix |-> "none", since |-> {}]
  /\ last = [op |-> "none", v |-> 0]
  /\ snap = NoSite
  /\ seed = NoSeed

\* CALL routine ...: the routine as a large constant (E0 tt hi lo), the
\* operands, and the store byte sb after them.
SiteCALL ==
  /\ cs = <<>>
  /\ \E L \in RoutineLocals, os \in CallArgs, sb \in CallStores :
       \E g \in {getParameters(After(4), os)} :
         /\ InCode(g.M.pc - pc + 1, CallCodeLen)
         /\ \A i \in 1..Len(os) : g.rs[i].def
         /\ Ran(call(g.M, RoutineBase(L) \div 2, g.rs, sb))
         /\ snap' = [M |-> g.M, L |-> L, rs |-> g.rs, sb |-> sb]
  /\ Stepped("CALL", 0)

InRoutine == status = "running" /\ cs # <<>>

\* PUSH 1 in the routine (E8 7F 01).
SitePUSH ==
  /\ InRoutine
  /\ ds = <<>>
  /\ Ran([After(3) EXCEPT !.ds = Append(@, 1)])
  /\ Stepped("PUSH", 1)
  /\ UNCHANGED snap

\* RETURN v with a small constant (9B v) or a large one (8B hi lo).
RETURN ==
  /\ InRoutine
  /\ \E o \in { [type |-> 1, raw |-> 7], [type |-> 1, raw |-> 255], [type |-> 0, raw |-> 65534] } :
       \E g \in {getParameterByType(After(1), o)} :
         /\ Ran(ret(g.M, g.r.v, snap.sb))
         /\ Stepped("RETURN", g.r.v)
  /\ UNCHANGED snap

SiteRTRUE ==
  /\ InRoutine
  /\ Ran(ret(After(1), 1, snap.sb))
  /\ Stepped("RTRUE", 1)
  /\ UNCHANGED snap

RFALSE ==
  /\ InRoutine
  /\ Ran(ret(After(1), 0, snap.sb))
  /\ Stepped("RFALSE", 0)
  /\ UNCHANGED snap

\* RSTACK: ret(ds[ds.length - 1]), the top not popped.
SiteRSTACK ==
  /\ InRoutine
  /\ ds # <<>>
  /\ Ran(ret(After(1), ds[Len(ds)], snap.sb))
  /\ Stepped("RSTACK", ds[Len(ds)])
  /\ UNCHANGED snap

\* ZERO? 0 with the specifiers C0, C1 (short form) and 80 00, 80 01 (long
\* form): on true, offset 0 or 1.
SiteZERO ==
  /\ InRoutine
  /\ \E b1 \in {192, 193, 128}, b2 \in {0, 1} :
       /\ Ran(predicate(After(2), TRUE, b1, b2, snap.sb))
       /\ Stepped("ZERO?", IF Bit(b1, 6) THEN b1 % 64 ELSE b2)
  /\ UNCHANGED snap

CallNext ==
  \/ SiteCALL \/ SitePUSH \/ RETURN \/ SiteRTRUE \/ RFALSE \/ SiteRSTACK \/ SiteZERO

SpecCall == CallInit /\ [][CallNext]_vars

ReturnOps == {"RETURN", "RTRUE", "RFALSE", "RSTACK", "ZERO?"}

\* C29: after a routine entered by CALL has returned v, the call stack is
\* as deep as before the CALL, the data stack is the caller's as the
\* operands of the CALL left it (with v on it if the store byte names
\* variable 0), v is in the variable the store byte after the operands
\* names, and the PC is past that store byte.
C29_CallReturnRestores ==
  last.op \in ReturnOps =>
     /\ status = "running"
     /\ cs = snap.M.cs
     /\ ds = (IF snap.sb = 0 THEN Append(snap.M.ds, last.v) ELSE snap.M.ds)
     /\ xfetch(Cur, snap.sb).r.v = last.v
     /\ pc = snap.M.pc + 1

\* The same in src/jszm.js alone.
C29_CallReturnRestoresNamed ==
  rev = "jszm" => C29_CallReturnRestores

\* src/unnamed/part_000: RETURN 7 from a routine called with 5 on the data
\* stack: the stack and the PC of the caller are gone, and 7 is in the
\* word at address 0.
C29_CallerLost ==
  /\ rev = "part"
  /\ last.op = "RETURN" /\ last.v = 7
  /\ snap.M.ds = <<5>>
  /\ cs = <<>>
  /\ ds = <<>>
  /\ pc = -1
  /\ getu(mem, 0) = 7

\* The arguments supplied to the last CALL.
Supplied == Len(snap.rs)

\* The i-th default word of the routine header.
HeaderWord(i) == get(snap.M.mem, RoutineBase(snap.L) + 1 + 2 * (i - 1))

\* C30: after CALL of a routine of L locals with n arguments, the new
\* frame has L locals, local i being argument i for i <= min(n, L, 3) and
\* the i-th default word of the header otherwise; the data stack is empty,
\* the PC is the routine's address + 1 + 2 * L, and nothing but the new
\* frame has changed: the memory and the frames below are as before.
C30_CallSetsLocals ==
  last.op = "CALL" =>
     /\ status = "running"
     /\ Len(cs) = Len(snap.M.cs) + 1
     /\ Len(cs[1].local) = snap.L
     /\ \A i \in 1..snap.L :
          cs[1].local[i] = (IF i <= Supplied /\ i <= 3 THEN snap.rs[i].v ELSE HeaderWord(i))
     /\ ds = <<>>
     /\ pc = RoutineBase(snap.L) + 1 + 2 * snap.L
     /\ mem = snap.M.mem
     /\ Tail(cs) = snap.M.cs

\* C30: three arguments, two of them from the data stack, to the routine
\* of two locals.
C30_Witness ==
  /\ last.op = "CALL"
  /\ snap.L = 2
  /\ Supplied = 3
  /\ cs[1].local = <<-6, 5>>

(***************************************************************************)
(* SpecShift: the loop of getText turn by turn, in PRINTB of a string of   *)
(* up to MaxChars characters drawn from ZChars and stored at StringAt of   *)
(* the story of SpecText.  While the loop runs status is "decoding" and    *)
(* snap holds the characters the generator has still to give (zs), the     *)
(* variables of getText (st) and the address the generator has reached     *)
(* (end); last is the turn just taken: its first character c, the branch   *)
(* of the loop that took it, and the shifts [ps, ts] before it.            *)
(***************************************************************************)
MaxChars == 5

ZChars == {0, 1, 4, 5, 6, 8, 13}

RECURSIVE Strings(_)
Strings(k) ==
  IF k = 0 THEN { <<>> }
  ELSE { <<>> } \cup { <<c>> \o zs : c \in ZChars, zs \in Strings(k - 1) }

NoTurn == [c |-> 0, branch |-> "none", ps |-> 0, ts |-> 0]

ShiftInit ==
  /\ rev \in {"jszm", "part"}
  /\ \E zs \in Strings(MaxChars) \ { <<>> } : memInit = TextStory(zs)
  /\ mem = init(0)
  /\ pc = getu(memInit, 6)
  /\ ds = <<>>
  /\ cs = <<>>
  /\ savedFlags = 0
  /\ status = "running"
  /\ saved = <<>>
  /\ shown = [fix |-> "none", since |-> {}]
  /\ snap = [zs |-> <<>>, st |-> Begun([ok |-> TRUE]), end |-> 0]
  /\ last = NoTurn
  /\ seed = NoSeed

\* The branch of the loop of src/jszm.js that takes c with the variables st.
branch_jszm(st, c) ==
  IF st.ts = 3 THEN "high"
  ELSE IF st.ts = 4 THEN "ascii"
  ELSE IF st.ts = 5 THEN "abbreviation"
  ELSE IF c = 0 THEN "space"
  ELSE IF c < 4 THEN "escape"
  ELSE IF c < 6 THEN "shift"
  ELSE IF c = 6 /\ st.ts = 2 THEN "escape"
  ELSE "alphabet"

\* The case of the switch of src/unnamed/part_000 that takes the head of zs:
\* "cut" if the string ends inside it.
branch_part(st, zs) ==
  IF Head(zs) = 0 THEN "space"
  ELSE IF Head(zs) < 4 THEN (IF Len(zs) < 2 THEN "cut" ELSE "abbreviation")
  ELSE IF Head(zs) < 6 THEN "shift"
  ELSE IF Head(zs) = 6 /\ st.ts = 2 THEN (IF Len(zs) < 3 THEN "cut" ELSE "ascii")
  ELSE "alphabet"

\* 87 hi lo: PRINTB calls getText, whose loop is about to begin.
ShiftPRINTB ==
  /\ status = "running"
  /\ InMem(mem, pc, 3) /\ mem[pc] = 135
  /\ \E e \in {getEncodedChars(mem, get(mem, pc + 1) % 65536)} :
       snap' = [zs |-> e.zs, st |-> Begun(e), end |-> e.end]
  /\ status' = "decoding"
  /\ last' = NoTurn
  /\ UNCHANGED <<seed, rev, memInit, mem, pc, ds, cs, savedFlags, saved, shown>>

\* One turn of the loop.
Turn ==
  /\ status = "decoding"
  /\ snap.zs # <<>>
  /\ snap.st.ok
  /\ \E t \in { IF rev = "jszm"
                THEN [st |-> turn_jszm(mem, snap.st, Head(snap.zs), NestMax),
                      zs |-> Tail(snap.zs)]
                ELSE turn_part(mem, snap.zs, snap.st, NestMax) } :
       snap' = [snap EXCEPT !.zs = t.zs, !.st = t.st]
  /\ last' = [c |-> Head(snap.zs),
              branch |-> IF rev = "jszm" THEN branch_jszm(snap.st, Head(snap.zs))
                         ELSE branch_part(snap.st, snap.zs),
              ps |-> snap.st.ps, ts |-> snap.st.ts]
  /\ UNCHANGED <<seed, rev, memInit, mem, pc, ds, cs, savedFlags, saved, shown, status>>

\* The loop ends (or an exception leaves it): getText returns and PRINTB
\* hands the text to genPrint.
Leave ==
  /\ status = "decoding"
  /\ snap.zs = <<>> \/ ~snap.st.ok
  /\ \E g \in {genPrint(mem, savedFlags)} :
       /\ status' = IF snap.st.ok THEN "running" ELSE "error"
       /\ savedFlags' = IF snap.st.ok THEN g.savedFlags ELSE savedFlags
       /\ shown' = IF snap.st.ok THEN Heard(shown, g.calls) ELSE shown
  /\ pc' = pc + 3
  /\ UNCHANGED <<seed, rev, memInit, mem, ds, cs, saved, snap, last>>

ShiftNext == ShiftPRINTB \/ Turn \/ Leave

SpecShift == ShiftInit /\ [][ShiftNext]_vars

\* C31: in the text decoder the permanent shift is always 0, 1 or 2; a
\* character c of 4 or 5 taken as a shift makes the temporary shift c - 3 if
\* none was pending, makes the permanent shift c - 3 if the temporary shift
\* was c - 3 already, and makes both 0 otherwise; after an alphabet
\* character, a character code or an abbreviation the temporary shift is the
\* permanent one; a space changes neither.
C31_ShiftMachine ==
  status = "decoding" =>
    /\ snap.st.ps \in {0, 1, 2}
    /\ last.branch = "shift" =>
         /\ last.c \in {4, 5}
         /\ last.ts = 0 => snap.st.ts = last.c - 3
         /\ last.ts = last.c - 3 => snap.st.ps = last.c - 3
         /\ last.ts \notin {0, last.c - 3} => snap.st.ps = 0 /\ snap.st.ts = 0
    /\ (last.branch \in {"alphabet", "ascii", "abbreviation"} /\ snap.st.ok) =>
         snap.st.ts = snap.st.ps
    /\ last.branch = "space" => snap.st.ps = last.ps /\ snap.st.ts = last.ts

\* part_000 took a second 4 with the shift to A1 pending and locked it, and
\* no characters are left.
C31_Witness ==
  /\ rev = "part"
  /\ status = "decoding"
  /\ last = [c |-> 4, branch |-> "shift", ps |-> 0, ts |-> 1]
  /\ snap.st.ps = 1
  /\ snap.st.ts = 1
  /\ snap.zs = <<5, 5>>

\* Addresses decoding starts at: the drawn string, its second word, and
\* the abbreviations 0 and 2.
Starts == {StringAt, StringAt + 2, 40, 44}

\* C39: the decoders of the two revisions return the same text and leave
\* the same end-of-text pointer (or both throw) from every start address in
\* every memory, also for strings that end inside an abbreviation escape or
\* a character code and strings with shift locks.
C39_DecodersAgree ==
  \A a \in Starts :
    getTextIn("jszm", mem, a, NestMax) = getTextIn("part", mem, a, NestMax)

\* C39: the loop of part_000 met the end of the string inside a character
\* code, after a shift lock to A2.
C39_Witness ==
  /\ rev = "part"
  /\ status = "decoding"
  /\ last.branch = "cut"
  /\ last.c = 6
  /\ snap.st.ps = 2
  /\ snap.zs = <<>>
  /\ getTextIn("jszm", mem, StringAt, NestMax).end = StringAt + 2

(***************************************************************************)
(* SpecPrompt: READ as a coroutine.  The story of SpecRead is followed by  *)
(* the code PUTB 0 17 v (the low byte of the flags word) and READ t1 t2,   *)
(* by the global variables 16, 17 and 18 (1, 5 and 7), by object 1 and by  *)
(* its property table, whose short name is "hi".  shown.usl tells whether  *)
(* the host has a method updateStatusLine; while READ is suspended snap    *)
(* is its activation as in SpecYield, with the two buffer addresses in     *)
(* arg; the host answers read() with any line that fits the text buffer.   *)
(***************************************************************************)
PromptAt == ReadAt + 4

PromptStory(v) ==
  LET extra == <<226, 87, 0, 17, v, 228, 95, TextBuffer, ParseBuffer>>
                 \o U16BE(1) \o U16BE(5) \o U16BE(7)
                 \o <<0, 0, 0, 0, 0, 0, 0>> \o U16BE(PromptAt + 24)
                 \o <<1>> \o Pack(<<13, 14>>)
      n == Cardinality(DOMAIN ReadStory)
  IN [i \in 0..(n + Len(extra) - 1) |->
        IF i = 7 THEN PromptAt                \* initial PC
        ELSE IF i = 11 THEN PromptAt + 15 - 62  \* object table
        ELSE IF i = 13 THEN PromptAt + 9       \* global variable 16
        ELSE IF i < n THEN ReadStory[i]
        ELSE extra[i - n + 1]]

PromptInit ==
  /\ rev \in {"jszm", "part"}
  /\ memInit \in {PromptStory(v) : v \in {0, 2}}
  /\ shown \in [fix : {"none"}, since : {{}}, usl : BOOLEAN]
  /\ mem = initHost([isTandy |-> FALSE, updateStatusLine |-> shown.usl,
                     screen |-> FALSE, split |-> FALSE], 0)
  /\ pc = getu(memInit, 6)
  /\ ds = <<>>
  /\ cs = <<>>
  /\ savedFlags = 0
  /\ status = "running"
  /\ saved = <<>>
  /\ last = [op |-> "none", pred |-> "none", why |-> "none", calls |-> <<>>]
  /\ snap = Idle
  /\ seed = NoSeed

\* E2 57 a b v: PUTB with three small constants.
PromptPUTB ==
  /\ status = "running"
  /\ InMem(mem, pc, 5) /\ mem[pc] = 226 /\ mem[pc + 1] = 87
  /\ mem' = [mem EXCEPT ![(mem[pc + 2] + mem[pc + 3]) % 65536] = mem[pc + 4]]
  /\ pc' = pc + 5
  /\ Did("PUTB", "none", "none", <<>>)
  /\ UNCHANGED <<seed, rev, memInit, ds, cs, savedFlags, status, saved, snap>>

\* The callouts of genPrint(text).
Said(calls, text) ==
  [i \in 1..Len(calls) |->
     IF calls[i].k = "print"
     THEN [k |-> "print", fix |-> calls[i].fix, scripting |-> calls[i].scripting,
           text |-> text]
     ELSE calls[i]]

\* this.updateStatusLine(this.getText(this.getu(objects+xfetch(16)*9+7)+1),
\* xfetch(18), xfetch(17)).
statusLine(m) ==
  [k |-> "status",
   text |-> getText(m, getu(m, objects + get(m, globals + 32) * 9 + 7) + 1, NestMax).out,
   v18 |-> get(m, globals + 36), v17 |-> get(m, globals + 34)]

\* A READ that asks for the line before it flushes the output.
prompts_ReadFirst(m, sf, usl, t1) ==
  << [k |-> "read", max |-> m[t1]] >> \o Said(genPrint(m, sf).calls, <<>>)
    \o (IF usl THEN << statusLine(m) >> ELSE <<>>)

\* The callouts of READ t1 t2 in the order of its yield*s, under a host
\* with (usl) or without updateStatusLine.
prompts(m, sf, usl, t1) ==
  Said(genPrint(m, sf).calls, <<>>)
    \o (IF usl THEN << statusLine(m) >> ELSE <<>>)
    \o << [k |-> "read", max |-> m[t1]] >>

\* E4 5F t1 t2: READ with two small constants, up to its first yield*.
PromptREAD ==
  /\ status = "running"
  /\ InMem(mem, pc, 4) /\ mem[pc] = 228 /\ mem[pc + 1] = 95
  /\ savedFlags' = genPrint(mem, savedFlags).savedFlags
  /\ Suspend("READ", prompts(mem, savedFlags, shown.usl, mem[pc + 2]),
             [t1 |-> mem[pc + 2], t2 |-> mem[pc + 3]])
  /\ pc' = pc + 4
  /\ UNCHANGED <<seed, rev, memInit, mem, ds, cs, saved>>

\* read() returns a line: handleInput(line, t1, t2) and the handler ends.
ReadReturned ==
  /\ status = "calling"
  /\ snap.op = "READ"
  /\ snap.todo = <<>>
  /\ \E line \in Lines :
       \E h \in {handleInput(mem, line, snap.arg.t1, snap.arg.t2)} :
          /\ Len(line) < mem[snap.arg.t1]
          /\ mem' = h.mem
          /\ status' = IF h.thrown THEN "error" ELSE "running"
          /\ last' = [last EXCEPT !.why = IF line = <<>> THEN "empty" ELSE "line"]
  /\ snap' = Idle
  /\ UNCHANGED <<seed, rev, memInit, pc, ds, cs, savedFlags, saved, shown>>

PromptNext == PromptPUTB \/ PromptREAD \/ Resumed \/ ReadReturned \/ Raised

SpecPrompt == PromptInit /\ [][PromptNext]_vars

\* The callouts c without the highlight callouts of genPrint.
RECURSIVE Plain(_)
Plain(c) ==
  IF c = <<>> THEN <<>>
  ELSE IF Head(c).k = "highlight" THEN Plain(Tail(c))
  ELSE <<Head(c).k>> \o Plain(Tail(c))

InOrder == <<"print">> \o (IF shown.usl THEN <<"status">> ELSE <<>>) \o <<"read">>

\* C32: the callouts of every READ are, in this order, print with the empty
\* string (after the highlight of genPrint, if the flags word changed), the
\* status line if and only if the host has an updateStatusLine, and one read
\* whose argument is the byte at the text buffer's address; memory is not
\* written while READ is suspended before its read callout, and READ ends
\* only by the return of read (or by an exception).
C32_ReadCallouts ==
  /\ [](last.op = "READ" =>
          /\ Plain(last.calls) = SubSeq(InOrder, 1, Len(Plain(last.calls)))
          /\ status = "running" => Plain(last.calls) = InOrder
          /\ \A i \in 1..Len(last.calls) :
               last.calls[i].k = "print" => last.calls[i].text = <<>>)
  /\ [](Outstanding("read") => snap.out[1].max = mem[snap.arg.t1])
  /\ [][last'.op = "READ" =>
          (mem' # mem => (Outstanding("read") /\ snap'.out = <<>>))]_vars

\* C32: under a host with a status line READ has made its four callouts
\* (the flags word had changed) and has put "a" in the text buffer.
C32_Witness ==
  /\ rev = "part"
  /\ status = "running"
  /\ last.op = "READ"
  /\ Len(last.calls) = 4
  /\ last.calls[3] = [k |-> "status", text |-> <<104, 105>>, v18 |-> 7, v17 |-> 5]
  /\ last.calls[4] = [k |-> "read", max |-> MaxLine + 1]
  /\ mem[TextBuffer + 1] = 97
  /\ mem[ParseBuffer + 1] = 1

(***************************************************************************)
(* SpecTwin: two runs of the same instructions.  The machine of SpecAlu    *)
(* runs RANDOM and ADD; snap is a second run of the same story, which      *)
(* started from its own draw of initRng() and executes the same            *)
(* instruction with the same operands in every step: its generator state   *)
(* (seed), the value its last instruction handed to store() (y), and sync: *)
(* whether the last RANDOM with a non-positive range had a negative one.   *)
(* Where one instruction can leave several states (RANDOM 0, which draws   *)
(* from Math.random) each run takes its own.                               *)
(***************************************************************************)
TwinCodeLen == 17

TwinInit ==
  /\ rev \in {"jszm", "part"}
  /\ memInit = VarStory
  /\ mem = init(0)
  /\ pc = getu(VarStory, 6)
  /\ ds = <<>>
  /\ cs = <<>>
  /\ savedFlags = 0
  /\ status = "running"
  /\ saved = <<>>
  /\ shown = [fix |-> "none", since |-> {}]
  /\ last = [op |-> "none", a |-> 0, b |-> 0, y |-> 0, sb |-> 0]
  /\ snap \in [seed : SeedDraws, y : {0}, sync : {FALSE}]
  /\ seed \in SeedDraws

\* RANDOM range with a large constant, stored on the stack (E7 3F hi lo 00),
\* in both runs.
TwinRANDOM ==
  /\ InCode(5, TwinCodeLen)
  /\ \E range \in Ranges :
       \E o \in random(seed, range), t \in random(snap.seed, range) :
          /\ seed' = o.seed
          /\ Ran(store(After(4), o.y, 0))
          /\ last' = [op |-> "RANDOM", a |-> range, b |-> 0, y |-> o.y, sb |-> 0]
          /\ snap' = [seed |-> t.seed, y |-> t.y,
                      sync |-> range < 0 \/ (range > 0 /\ snap.sync)]
  /\ UNCHANGED <<rev, memInit, savedFlags, saved, shown>>

\* ADD a b with two large constants, stored on the stack, in both runs.
TwinADD ==
  /\ InCode(7, TwinCodeLen)
  /\ \E a \in {5}, b \in {-3, 5} :
       /\ Ran(store(After(6), a + b, 0))
       /\ last' = [op |-> "ADD", a |-> a, b |-> b, y |-> a + b, sb |-> 0]
       /\ snap' = [snap EXCEPT !.y = a + b]
  /\ UNCHANGED <<seed, rev, memInit, savedFlags, saved, shown>>

TwinNext == TwinRANDOM \/ TwinADD

SpecTwin == TwinInit /\ [][TwinNext]_vars

\* Sums and products modulo 2^32 on halves <<hi, lo>>, by additions only.
add32(x, y) == << (x[1] + y[1] + (x[2] + y[2]) \div 65536) % 65536, (x[2] + y[2]) % 65536 >>

RECURSIVE times32(_, _)
times32(k, x) ==
  IF k = 0 THEN <<0, 0>>
  ELSE IF k % 2 = 1 THEN add32(x, times32(k - 1, x))
  ELSE times32(k \div 2, add32(x, x))

\* (1664525 * s + 1013904223) mod 2^32.
Advanced(s) == add32(times32(1664525, s), <<15470, 62303>>)

\* C35: RANDOM is deterministic once seeded: after RANDOM with the same
\* negative argument two runs that execute the same RANDOMs of positive
\* range (and no RANDOM 0) have the same generator state and store the same
\* values; RANDOM with a negative argument makes the state the unsigned
\* 32-bit value of the argument, RANDOM with a positive range advances it by
\* s <- (1664525 * s + 1013904223) mod 2^32, and no other instruction
\* changes it.
C35_RandomDeterministic ==
  /\ [](snap.sync => (seed = snap.seed /\ last.y = snap.y))
  /\ [][(last'.op = "RANDOM" /\ last'.a < 0) =>
          seed' = << 65535, 65536 + last'.a >>]_vars
  /\ [][(last'.op = "RANDOM" /\ last'.a > 0) => seed' = Advanced(seed)]_vars
  /\ [][last'.op # "RANDOM" => seed' = seed]_vars

\* C35: two runs seeded by RANDOM -1, after ADD 5 5 and RANDOM 6: the
\* generator has advanced once and both runs stored the same value.
C35_Witness ==
  /\ snap.sync
  /\ last.op = "RANDOM"
  /\ last.a = 6
  /\ ds = <<0, 10, last.y>>
  /\ snap.y \in 1..6
  /\ seed = Advanced(<<65535, 65535>>)

(***************************************************************************)
(* SpecTree: MOVE and REMOVE of objects 1 to NObj, the destination of a    *)
(* MOVE another object than the one moved, on images of the tree           *)
(* A{B, C{D}}: as ObjStory lays it down; with the sibling byte of the root *)
(* A naming B; and with the parent byte of D naming A, whose chain does    *)
(* not hold D.  The byte of that image at objects + 5 (the sibling byte of *)
(* "object 0": the high byte of the default of property 30) is 0 or 4.     *)
(* snap tells whether every object of the image was in the chain of its    *)
(* parent (formed) and which objects have been moved to 0 since (removed). *)
(***************************************************************************)
TreeStory(siblingA, parentD, next0) ==
  LET s == ObjStory(ExampleKids, [x \in Objs |-> NoTable])
      o == s[10] * 256 + s[11] - 2 + 55     \* objects
  IN [s EXCEPT ![o + 5] = next0, ![o + 9 + 5] = siblingA, ![o + 4 * 9 + 4] = parentD]

TreeInit ==
  /\ rev \in {"jszm", "part"}
  /\ \E t \in { <<0, 3, 0>>, <<2, 3, 0>>, <<0, 1, 0>>, <<0, 1, 4>> } :
       /\ memInit = TreeStory(t[1], t[2], t[3])
       /\ snap = [formed |-> t[2] = 3, removed |-> {}]
  /\ mem = init(0)
  /\ pc = 0
  /\ ds = <<>>
  /\ cs = <<>>
  /\ savedFlags = 0
  /\ status = "running"
  /\ saved = <<>>
  /\ shown = [fix |-> "none", since |-> {}]
  /\ last = [op |-> "none", x |-> 0, y |-> 0]
  /\ seed = NoSeed

\* move(x, y) called by an opcode: a walk that does not end leaves the
\* driver in the loop.
Relinked(op, x, y) ==
  /\ \E r \in {move(mem, x, y)} :
       /\ mem' = r.mem
       /\ status' = IF r.hung THEN "hung" ELSE "running"
  /\ last' = [op |-> op, x |-> x, y |-> y]
  /\ snap' = [snap EXCEPT !.removed = IF y = 0 THEN @ \cup {x} ELSE @]
  /\ UNCHANGED <<seed, rev, memInit, pc, ds, cs, savedFlags, saved, shown>>

TreeMOVE ==
  /\ status = "running"
  /\ \E x \in Objs : \E y \in Objs \ {x} : Relinked("MOVE", x, y)

TreeREMOVE ==
  /\ status = "running"
  /\ \E x \in Objs : Relinked("REMOVE", x, 0)

TreeNext == TreeMOVE \/ TreeREMOVE

SpecTree == TreeInit /\ [][TreeNext]_vars

\* Every chain ends in 0 without meeting an object twice and holds only
\* objects whose parent byte names its owner; every object with a parent is
\* in the chain of that parent; an object of removed without parent has no
\* sibling.
Formed(m, removed) ==
  /\ \A r \in Objs :
       /\ Len(Chain(m, r)) <= NObj
       /\ \A i \in 1..Len(Chain(m, r)) :
            Chain(m, r)[i] \in Objs /\ loc(m, Chain(m, r)[i]) = r
       /\ \A i, j \in 1..Len(Chain(m, r)) : Chain(m, r)[i] = Chain(m, r)[j] => i = j
  /\ \A x \in Objs :
       /\ loc(m, x) \in 0..NObj
       /\ loc(m, x) # 0 => Has(Chain(m, loc(m, x)), x)
       /\ (loc(m, x) = 0 /\ x \in removed) => next(m, x) = 0

\* C36: MOVE and REMOVE of non-zero objects (the destination not the object
\* moved) keep the object tree well-formed: each object with a parent p is
\* once in the chain of p and in no other chain, each chain ends in 0
\* without a cycle, and each object that has been removed and has parent 0
\* has sibling 0.
C36_TreeStaysFormed ==
  snap.formed => (status = "running" /\ Formed(mem, snap.removed))

\* C36: A was moved under its grandchild D after an object had been removed:
\* the parents of A, D and C go round, and the chains are as the claim says.
C36_Witness ==
  /\ snap.formed
  /\ snap.removed # {}
  /\ last = [op |-> "MOVE", x |-> 1, y |-> 4]
  /\ loc(mem, 4) = 3
  /\ loc(mem, 3) = 1
  /\ Chain(mem, 4) = <<1>>
  /\ memInit[objects + 9 + 5] = 2

\* C37: the walk of move(x, y) for the object before x ends: in a
\* well-formed tree, and also when the chain of x's parent does not hold x.
C37_WalkEnds == status # "hung"

====
